---- MODULE Spec2Model ----
(***************************************************************************)
(* Model of the genvoy MCP server's job-completion core.                   *)
(*                                                                         *)
(*   SpecWait / FairWait : one call of FalClient.wait_for_completion       *)
(*                         (SSE status stream with polling fallback).      *)
(*   SpecGate / FairGate : _generate_once calls of a batch contending for  *)
(*                         the admission gate with other tool calls.       *)
(*   SpecBatch           : generate_batch, fan-out and result collection.  *)
(***************************************************************************)
EXTENDS Integers, Sequences, FiniteSets, TLC

(***************************************************************************)
(* Bounds of the model.                                                    *)
(***************************************************************************)
MaxTimeout == 2
MaxDataLines == 2

(***************************************************************************)
(* JSON payloads.  A status payload is a dict of which the code reads the  *)
(* keys data.status, data.state, status and state; ABSENT stands for a     *)
(* missing key (or a null / empty value, which `or` treats alike).         *)
(***************************************************************************)
ABSENT == "None"

Dict(hasData, dstatus, dstate, st, state, other) ==
    [kind |-> "dict", hasData |-> hasData, dstatus |-> dstatus, dstate |-> dstate,
     status |-> st, state |-> state, other |-> other]

PyNone ==
    [kind |-> "none", hasData |-> FALSE, dstatus |-> ABSENT, dstate |-> ABSENT,
     status |-> ABSENT, state |-> ABSENT, other |-> FALSE]

\* The status payloads the remote is let to send: one per branch of _status_value.
Payloads ==
    { Dict(FALSE, ABSENT, ABSENT, ABSENT, ABSENT, FALSE),            \* {}
      Dict(FALSE, ABSENT, ABSENT, ABSENT, ABSENT, TRUE),             \* {"logs": []}
      Dict(FALSE, ABSENT, ABSENT, "IN_PROGRESS", ABSENT, FALSE),
      Dict(FALSE, ABSENT, ABSENT, "completed", ABSENT, FALSE),
      Dict(FALSE, ABSENT, ABSENT, ABSENT, "FAILED", FALSE),
      Dict(FALSE, ABSENT, ABSENT, "IN_QUEUE", "COMPLETED", FALSE),
      Dict(TRUE, "COMPLETED", ABSENT, "IN_PROGRESS", ABSENT, FALSE),
      Dict(TRUE, ABSENT, "in_progress", "FAILED", ABSENT, FALSE),
      Dict(TRUE, ABSENT, ABSENT, ABSENT, "failed", FALSE) }

\* str.upper() on the status strings of the model.
Upper(s) ==
    CASE s = "completed" -> "COMPLETED"
      [] s = "failed" -> "FAILED"
      [] s = "in_progress" -> "IN_PROGRESS"
      [] s = ABSENT -> ""
      [] OTHER -> s

\* a or b or ... : the first operand that is present.
FirstPresent(seq) ==
    LET present == { i \in 1..Len(seq) : seq[i] # ABSENT }
    IN  IF present = {} THEN ABSENT
        ELSE seq[CHOOSE i \in present : \A j \in present : i <= j]

_status_value(payload) ==
    IF payload.hasData
    THEN Upper(FirstPresent(<<payload.dstatus, payload.dstate, payload.status, payload.state>>))
    ELSE Upper(FirstPresent(<<payload.status, payload.state>>))

\* Python truthiness of an Optional[dict].
Truthy(p) ==
    /\ p.kind = "dict"
    /\ \/ p.hasData
       \/ p.status # ABSENT
       \/ p.state # ABSENT
       \/ p.other

IsTerminal(state) == state \in {"COMPLETED", "FAILED"}

(***************************************************************************)
(* Errors and call results.                                                *)
(***************************************************************************)
GenvoyToolError(code) == [genvoy |-> TRUE, code |-> code, payload |-> PyNone]
JobFailed(p) == [genvoy |-> TRUE, code |-> "JOB_FAILED", payload |-> p]
OtherException(name) == [genvoy |-> FALSE, code |-> name, payload |-> PyNone]
NoError == [genvoy |-> FALSE, code |-> "none", payload |-> PyNone]

Pending == [kind |-> "none", payload |-> PyNone, err |-> NoError]
Return(p) == [kind |-> "return", payload |-> p, err |-> NoError]
Raise(e) == [kind |-> "raise", payload |-> PyNone, err |-> e]

\* Error codes FalClient._request can raise for a status call.
RequestErrorCodes ==
    {"NETWORK_ERROR", "RATE_LIMITED", "MODEL_NOT_FOUND", "QUEUE_START_TIMEOUT",
     "FAL_API_ERROR", "INVALID_RESPONSE"}

\* What the progress callback can raise: a tool error of its own, or any other exception.
CallbackErrors == {GenvoyToolError("PROGRESS_ERROR"), OtherException("RuntimeError")}

(***************************************************************************)
(* The status stream as the remote serves it.                              *)
(***************************************************************************)
TransportError == 0
StreamStatusCodes == {200, 404, 405, 501, 429, 403, 500, 504}
OpenResponses == StreamStatusCodes \cup {TransportError}

\* The text after "data:" of one line: empty, not JSON, JSON that is no object, or one
\* whole JSON object.
EmptyText == [kind |-> "empty", hasData |-> FALSE, dstatus |-> ABSENT, dstate |-> ABSENT,
              status |-> ABSENT, state |-> ABSENT, other |-> FALSE]
GarbageText == [EmptyText EXCEPT !.kind = "garbage"]
NonDictText == [EmptyText EXCEPT !.kind = "nondict"]
DataTexts == {EmptyText, GarbageText, NonDictText} \cup Payloads

\* json.loads("\n".join(data_lines).strip()): PyNone when the text is empty or does not
\* parse; several JSON documents in one frame do not parse.
ParseFrame(lines) ==
    LET full == { i \in 1..Len(lines) : lines[i].kind # "empty" }
    IN  IF Cardinality(full) # 1 THEN PyNone
        ELSE LET text == lines[CHOOSE i \in full : TRUE]
             IN  IF text.kind = "garbage" THEN PyNone ELSE text

(***************************************************************************)
(* The admission gate, SEMAPHORE = asyncio.Semaphore(MAX_CONCURRENT_JOBS): *)
(* a counter and a FIFO queue of waiters.  A waiter that was woken has     *)
(* been given its slot (the counter was decremented for it) and leaves the *)
(* queue when its task runs again.  owners and releases record, per        *)
(* orchestration, the slots it was given and the release() calls it made;  *)
(* id 0 stands for the orchestrations of all other tool calls.             *)
(***************************************************************************)
MAX_CONCURRENT_JOBS == 8
MaxCount == 1
BatchCount == 3
MaxModels == 2
MaxUp == 2
MaxGens == 3
MaxChunks == 1
MaxFrames == 2
MaxOthers == 9

NewSemaphore(n) ==
    [value |-> MAX_CONCURRENT_JOBS, waiters |-> <<>>,
     owners |-> [id \in 0..n |-> 0], releases |-> [id \in 0..n |-> 0]]

locked(sem) == sem.value = 0 \/ Len(sem.waiters) > 0

Sleepers(sem) == { k \in 1..Len(sem.waiters) : ~sem.waiters[k].done }

\* Faulty variant of _wake_up_next: the waiter that queued last is woken.
WakeLast(sem) ==
    IF Sleepers(sem) = {} THEN sem
    ELSE LET k == CHOOSE k \in Sleepers(sem) : \A j \in Sleepers(sem) : k >= j
         IN  [sem EXCEPT !.value = @ - 1, !.waiters[k].done = TRUE,
                         !.owners[sem.waiters[k].id] = @ + 1]

\* The first waiter that was not woken yet is given a slot.
_wake_up_next(sem) ==
    IF Sleepers(sem) = {} THEN sem
    ELSE LET k == CHOOSE k \in Sleepers(sem) : \A j \in Sleepers(sem) : k <= j
         IN  [sem EXCEPT !.value = @ - 1, !.waiters[k].done = TRUE,
                         !.owners[sem.waiters[k].id] = @ + 1]

\* Faulty variant of acquire: a slot is taken whether or not one is free.
AcquireUnchecked(sem, id) ==
    [sem EXCEPT !.value = @ - 1, !.owners[id] = @ + 1]

\* acquire(), up to its await: take a slot if the gate is not locked, else queue.
acquire(sem, id) ==
    IF ~locked(sem)
    THEN [sem EXCEPT !.value = @ - 1, !.owners[id] = @ + 1]
    ELSE [sem EXCEPT !.waiters = Append(@, [id |-> id, done |-> FALSE])]

release(sem, id) ==
    _wake_up_next([sem EXCEPT !.value = @ + 1, !.owners[id] = @ - 1,
                              !.releases[id] = IF id = 0 THEN 0 ELSE @ + 1])

\* "while self._value > 0: if not self._wake_up_next(): break": the first sleepers are
\* woken, one for each free slot.
WakeWhileFree(sem) ==
    LET S == Sleepers(sem)
        woken == { k \in S : Cardinality({ j \in S : j < k }) < sem.value }
    IN  [sem EXCEPT
           !.value = @ - Cardinality(woken),
           !.waiters = [k \in 1..Len(@) |->
                          IF k \in woken THEN [@[k] EXCEPT !.done = TRUE] ELSE @[k]],
           !.owners = [id \in DOMAIN @ |->
                          @[id] + Cardinality({ k \in woken : sem.waiters[k].id = id })]]

\* acquire(), after its await: the woken waiter k leaves the queue.
resume(sem, k) ==
    WakeWhileFree([sem EXCEPT !.waiters =
        SubSeq(@, 1, k - 1) \o SubSeq(@, k + 1, Len(@))])

\* Faulty variant of GateExit: the slot is kept when the body raised.
ExitOnlyOnSuccess(sem, id, raised) ==
    IF raised THEN sem ELSE release(sem, id)

\* SEMAPHORE.__aexit__: the slot is released whether or not the body raised.
GateExit(sem, id, raised) == release(sem, id)

VARIABLES
    wpc,                    \* position of the wait_for_completion call
    timeout_seconds,        \* argument
    poll_interval_seconds,  \* argument
    has_on_status,          \* whether an on_status callback was given
    idle,                   \* seconds since the stream last delivered a line
    data_lines,             \* stream_job_status: data lines of the frame being read
    last_payload,           \* stream_job_status: last decoded dict
    streamResult,           \* how the stream_job_status call ended
    elapsed,                \* polling loop: elapsed
    status,                 \* polling loop: the last status response
    polls,                  \* number of get_job_status calls made
    outcome,                \* how wait_for_completion ended
    strace                  \* stream_job_status: the frames decoded and the callbacks made,
                            \* when they are recorded

waitVars == <<wpc, timeout_seconds, poll_interval_seconds, has_on_status, idle, data_lines,
              last_payload, streamResult, elapsed, status, polls, outcome, strace>>

VARIABLES
    model_ids,   \* generate_compare: the model identifiers (<<>> in a batch)
    count,       \* generate_batch: the number of items
    repo_dir,    \* generate_batch: whether a repo_dir was given
    bpc,         \* position of the generate_batch call
    pc,          \* position of each item's _generate_once call
    err,         \* the exception each item's _generate_once call raised
    log,         \* the steps each item started and how they ended
    client,      \* each item's FalClient
    SEMAPHORE,   \* the admission gate: value, waiters, and who owns the slots given out
    oGated,      \* orchestrations of other tool calls inside the gated section
    files,       \* generate_batch: result
    failed,      \* generate_batch: result
    orch         \* what the orchestrations received and sent, when it is recorded

gateVars == <<model_ids, count, repo_dir, bpc, pc, err, log, client, SEMAPHORE, oGated, files,
              failed, orch>>

\* Nothing is recorded.
NoOrch == [on |-> FALSE, issued |-> 0, got |-> <<>>, submitted |-> <<>>, request_id |-> <<>>,
           result |-> <<>>, calls |-> <<>>, escapes |-> <<>>]

VARIABLES
    disk,    \* the files on disk: path -> content
    dirs,    \* the directories on disk
    fpc,     \* position of the filesystem call that is running
    fcall,   \* its arguments and locals
    fret,    \* how the last filesystem call ended
    gens,    \* number of calls started so far
    gres,    \* how the current generation stands
    snap,    \* the files on disk when the current call started
    gsnap,   \* the files on disk when the current generation started
    fin      \* what the calls may be given: paths, number of calls, responses

fsVars == <<disk, dirs, fpc, fcall, fret, gens, gres, snap, gsnap, fin>>

VARIABLES
    fn       \* the last call of a function that has no state: name, argument, result

vars == <<waitVars, gateVars, fsVars, fn>>

\* No such call has been made.
NoFn == [name |-> "none", done |-> FALSE]

\* Frames and callbacks are not recorded; the clock counts whole seconds and the queue
\* answers a poll with any of Payloads.
NoTrace ==
    [on |-> FALSE, frames |-> <<>>, callbacks |-> <<>>, opened |-> <<>>, polled |-> <<>>,
     poll_callbacks |-> <<>>, statuses |-> Payloads, clock |-> "seconds"]

\* No filesystem call is modelled step by step.
FilesAtRest ==
    /\ fn = NoFn
    /\ disk = <<>>
    /\ dirs = {}
    /\ fpc = "none"
    /\ fcall = <<>>
    /\ fret = <<>>
    /\ gens = 0
    /\ gres = "none"
    /\ snap = <<>>
    /\ gsnap = <<>>
    /\ fin = <<>>

PollIntervals == {1, 2}

\* No fan-out is running.
GateAtRest ==
    /\ orch = NoOrch
    /\ model_ids = <<>>
    /\ count = 0
    /\ repo_dir = FALSE
    /\ bpc = "none"
    /\ pc = <<>>
    /\ err = <<>>
    /\ log = <<>>
    /\ client = <<>>
    /\ SEMAPHORE = NewSemaphore(0)
    /\ oGated = 0
    /\ files = <<>>
    /\ failed = <<>>

InitWait ==
    /\ FilesAtRest
    /\ GateAtRest
    /\ wpc = "stream_open"
    /\ timeout_seconds \in 0..MaxTimeout
    /\ poll_interval_seconds \in PollIntervals
    /\ has_on_status \in BOOLEAN
    /\ idle = 0
    /\ data_lines = <<>>
    /\ last_payload = PyNone
    /\ streamResult = Pending
    /\ elapsed = 0
    /\ status = PyNone
    /\ polls = 0
    /\ outcome = Pending
    /\ strace = NoTrace

\* What on_status(payload) may do: return, or raise.
CallbackResults == IF has_on_status THEN {NoError} \cup CallbackErrors ELSE {NoError}

(***************************************************************************)
(* wait_for_completion, lines 261-276: what follows the stream attempt.    *)
(***************************************************************************)
\* As AfterStream, but SSE_UNAVAILABLE is re-raised like any other error.
AfterStreamNoFallback(res) ==
    IF res.kind = "return" /\ _status_value(res.payload) = "COMPLETED"
    THEN [pc |-> "done", outcome |-> Return(res.payload)]
    ELSE IF res.kind = "return" /\ _status_value(res.payload) = "FAILED"
    THEN [pc |-> "done", outcome |-> Raise(JobFailed(res.payload))]
    ELSE IF res.kind = "raise"
    THEN [pc |-> "done", outcome |-> Raise(res.err)]
    ELSE [pc |-> "poll", outcome |-> Pending]

\* As AfterStream, but every GenvoyToolError of the stream attempt is swallowed.
AfterStreamAnyFallback(res) ==
    IF res.kind = "return" /\ _status_value(res.payload) = "COMPLETED"
    THEN [pc |-> "done", outcome |-> Return(res.payload)]
    ELSE IF res.kind = "return" /\ _status_value(res.payload) = "FAILED"
    THEN [pc |-> "done", outcome |-> Raise(JobFailed(res.payload))]
    ELSE IF res.kind = "raise" /\ ~res.err.genvoy
    THEN [pc |-> "done", outcome |-> Raise(res.err)]
    ELSE [pc |-> "poll", outcome |-> Pending]

\* As AfterStream, but the JOB_FAILED raised inside the try block is swallowed too.
AfterStreamFailedFallsBack(res) ==
    IF res.kind = "return" /\ _status_value(res.payload) = "COMPLETED"
    THEN [pc |-> "done", outcome |-> Return(res.payload)]
    ELSE IF res.kind = "raise" /\ ~(res.err.genvoy /\ res.err.code = "SSE_UNAVAILABLE")
    THEN [pc |-> "done", outcome |-> Raise(res.err)]
    ELSE [pc |-> "poll", outcome |-> Pending]

AfterStream(res) ==
    IF res.kind = "return" /\ _status_value(res.payload) = "COMPLETED"
    THEN [pc |-> "done", outcome |-> Return(res.payload)]
    ELSE IF res.kind = "return" /\ _status_value(res.payload) = "FAILED"
    THEN [pc |-> "done", outcome |-> Raise(JobFailed(res.payload))]
    ELSE IF res.kind = "raise" /\ ~(res.err.genvoy /\ res.err.code = "SSE_UNAVAILABLE")
    THEN [pc |-> "done", outcome |-> Raise(res.err)]
    ELSE [pc |-> "poll", outcome |-> Pending]

\* stream_job_status ends with res and its locals are gone; wait_for_completion goes on
\* from there.
EndStream(res) ==
    /\ streamResult' = res
    /\ idle' = 0
    /\ data_lines' = <<>>
    /\ last_payload' = PyNone
    /\ wpc' = AfterStream(res).pc
    /\ outcome' = AfterStream(res).outcome

(***************************************************************************)
(* stream_job_status.                                                      *)
(***************************************************************************)
\* Faulty variant of StreamOpenResult: the error statuses other than 404, 405 and 501
\* are turned into the errors _request has for them.
StreamOpenResultByTable(r) ==
    IF r = TransportError THEN Raise(GenvoyToolError("SSE_UNAVAILABLE"))
    ELSE IF r \in {404, 405, 501} THEN Raise(GenvoyToolError("SSE_UNAVAILABLE"))
    ELSE IF r = 429 THEN Raise(GenvoyToolError("RATE_LIMITED"))
    ELSE IF r < 200 \/ r >= 300 THEN Raise(GenvoyToolError("FAL_API_ERROR"))
    ELSE Pending

\* Lines 102-108 and 137-142: what opening the stream gives.
StreamOpenResult(r) ==
    IF r = TransportError THEN Raise(GenvoyToolError("SSE_UNAVAILABLE"))
    ELSE IF r \in {404, 405, 501} THEN Raise(GenvoyToolError("SSE_UNAVAILABLE"))
    ELSE IF r < 200 \/ r >= 300 THEN Raise(GenvoyToolError("SSE_UNAVAILABLE"))
    ELSE Pending

StreamOpen ==
    /\ UNCHANGED <<gateVars, fsVars, fn>>
    /\ wpc = "stream_open"
    /\ \E r \in OpenResponses :
         /\ strace' = IF strace.on THEN [strace EXCEPT !.opened = <<r>>] ELSE strace
         /\ IF StreamOpenResult(r).kind = "raise"
            THEN EndStream(StreamOpenResult(r))
            ELSE /\ wpc' = "stream_read"
                 /\ idle' = 0
                 /\ data_lines' = <<>>
                 /\ last_payload' = PyNone
                 /\ UNCHANGED <<streamResult, outcome>>
    /\ UNCHANGED <<timeout_seconds, poll_interval_seconds, has_on_status, elapsed, status,
                   polls>>

\* Line 102, timeout=timeout_seconds: the timeout bounds the wait for each read, not the
\* life of the stream.  A second passes without a line; a read (a line, or the end of
\* the stream) succeeds only while idle < timeout_seconds, and once the wait has lasted
\* timeout_seconds only the transport error (the read timeout) is left.
StreamTick ==
    /\ UNCHANGED <<gateVars, fsVars, fn>>
    /\ wpc = "stream_read"
    /\ idle < timeout_seconds
    /\ idle' = idle + 1
    /\ UNCHANGED <<strace, wpc, timeout_seconds, poll_interval_seconds, has_on_status, data_lines,
                   last_payload, streamResult, elapsed, status, polls, outcome>>

\* Lines 112-114: a "data:" line.
StreamDataLine ==
    /\ UNCHANGED <<gateVars, fsVars, fn>>
    /\ wpc = "stream_read"
    /\ idle < timeout_seconds
    /\ Len(data_lines) < MaxDataLines
    /\ strace.on => Len(strace.frames) < MaxFrames
    /\ \E text \in DataTexts : data_lines' = Append(data_lines, text)
    /\ idle' = 0
    /\ UNCHANGED <<strace, wpc, timeout_seconds, poll_interval_seconds, has_on_status,
                   last_payload, streamResult, elapsed, status, polls, outcome>>

\* Lines 115-116: a line that is neither blank nor data (a comment, an event name).
StreamOtherLine ==
    /\ UNCHANGED <<gateVars, fsVars, fn>>
    /\ wpc = "stream_read"
    /\ idle < timeout_seconds
    /\ idle' = 0
    /\ UNCHANGED <<strace, wpc, timeout_seconds, poll_interval_seconds, has_on_status, data_lines,
                   last_payload, streamResult, elapsed, status, polls, outcome>>

\* Faulty variant of FrameStep: a terminal frame does not end the call.
FrameStepReadsOn(payload, cb) ==
    IF cb # NoError THEN Raise(cb) ELSE Pending

\* Lines 130-136: the callback has been called with the payload; Pending when the loop
\* goes on to the next line.
FrameStep(payload, cb) ==
    IF cb # NoError THEN Raise(cb)
    ELSE IF IsTerminal(_status_value(payload)) THEN Return(payload)
    ELSE Pending

\* Lines 128-133: a frame was decoded to a dict, and on_status, if given, is called
\* with it.
Traced(tr, payload) ==
    IF ~tr.on THEN tr
    ELSE [tr EXCEPT !.frames = Append(@, payload),
                    !.callbacks = IF has_on_status THEN Append(@, payload) ELSE @]

\* Lines 117-136: a blank line ends the frame.
StreamBlankLine ==
    /\ UNCHANGED <<gateVars, fsVars, fn>>
    /\ wpc = "stream_read"
    /\ idle < timeout_seconds
    /\ LET payload == ParseFrame(data_lines)
           goOn(last) == /\ idle' = 0
                         /\ data_lines' = <<>>
                         /\ last_payload' = last
                         /\ UNCHANGED <<wpc, streamResult, outcome>>
       IN  IF data_lines = <<>> \/ payload.kind # "dict"
           THEN goOn(last_payload) /\ UNCHANGED strace
           ELSE \E cb \in CallbackResults :
                  /\ strace' = Traced(strace, payload)
                  /\ IF FrameStep(payload, cb) = Pending
                     THEN goOn(payload)
                     ELSE EndStream(FrameStep(payload, cb))
    /\ UNCHANGED <<timeout_seconds, poll_interval_seconds, has_on_status, elapsed, status,
                   polls>>

\* Lines 141-142: a transport error while reading (a read timeout among them).
StreamTransportError ==
    /\ UNCHANGED <<gateVars, fsVars, fn>>
    /\ wpc = "stream_read"
    /\ EndStream(Raise(GenvoyToolError("SSE_UNAVAILABLE")))
    /\ UNCHANGED <<strace, timeout_seconds, poll_interval_seconds, has_on_status, elapsed, status,
                   polls>>

\* Faulty variant of StreamClosedResult: the last decoded frame is returned whatever
\* its state.
StreamClosedReturnsLast(last) ==
    IF Truthy(last) THEN Return(last) ELSE Raise(GenvoyToolError("SSE_UNAVAILABLE"))

\* Lines 144-148: the server closed the stream.
StreamClosedResult(last) ==
    IF Truthy(last) /\ IsTerminal(_status_value(last))
    THEN Return(last)
    ELSE Raise(GenvoyToolError("SSE_UNAVAILABLE"))

StreamClosed ==
    /\ UNCHANGED <<gateVars, fsVars, fn>>
    /\ wpc = "stream_read"
    /\ idle < timeout_seconds
    /\ EndStream(StreamClosedResult(last_payload))
    /\ UNCHANGED <<strace, timeout_seconds, poll_interval_seconds, has_on_status, elapsed, status,
                   polls>>

(***************************************************************************)
(* wait_for_completion, lines 279-293: the polling fallback.               *)
(***************************************************************************)
\* Faulty variant of PollFailed: the loop sleeps and polls again.
PollFailedRetries(e) == [pc |-> "sleep", outcome |-> Pending]

\* Line 281: get_job_status raised e, which nothing in wait_for_completion catches.
PollFailed(e) == [pc |-> "done", outcome |-> Raise(e)]

\* Lines 286-291: what the loop does with a status the callback accepted.
AfterPoll(st) ==
    IF _status_value(st) = "COMPLETED" THEN [pc |-> "done", outcome |-> Return(st)]
    ELSE IF _status_value(st) = "FAILED" THEN [pc |-> "done", outcome |-> Raise(JobFailed(st))]
    ELSE [pc |-> "sleep", outcome |-> Pending]

\* Lines 281-285: what a status call gave (an error, or a payload), and the payload
\* on_status, if given, was called with.
Polled(tr, e, payload) ==
    IF ~tr.on THEN tr
    ELSE [tr EXCEPT !.polled = Append(@, [err |-> e, payload |-> payload]),
                    !.poll_callbacks = IF has_on_status /\ e = NoError
                                       THEN Append(@, payload) ELSE @]

PollStatus ==
    /\ UNCHANGED <<gateVars, fsVars, fn>>
    /\ wpc = "poll"
    /\ elapsed < timeout_seconds
    /\ polls' = polls + 1
    /\ \/ \E code \in RequestErrorCodes :
            /\ wpc' = PollFailed(GenvoyToolError(code)).pc
            /\ outcome' = PollFailed(GenvoyToolError(code)).outcome
            /\ strace' = Polled(strace, GenvoyToolError(code), PyNone)
            /\ UNCHANGED status
       \/ \E st \in strace.statuses, cb \in CallbackResults :
            /\ status' = st
            /\ strace' = Polled(strace, NoError, st)
            /\ IF cb # NoError
               THEN /\ wpc' = "done"
                    /\ outcome' = Raise(cb)
               ELSE /\ wpc' = AfterPoll(st).pc
                    /\ outcome' = AfterPoll(st).outcome
    /\ UNCHANGED <<timeout_seconds, poll_interval_seconds, has_on_status, idle, data_lines,
                   last_payload, streamResult, elapsed>>

\* The float that adding 0.1 to itself n times gives lies just above n/10 for the n of
\* RoundedUp, just below it for the n of RoundedDown, and is the float nearest n/10
\* for the other n up to 43 (0.1 + 0.1 + 0.1 is 0.30000000000000004, ten times 0.1 is
\* 0.9999999999999999).
RoundedUp == {3} \cup 14..43
RoundedDown == {8, 9, 10, 11}

\* Where the clock counts thirtieths of a second, 3 * n is the float nearest n/10, and
\* 3 * n - 1 and 3 * n + 1 are the floats just below and just above it.
Tenth == 3
SumOfTenths(n) ==
    3 * n + (IF n \in RoundedUp THEN 1 ELSE IF n \in RoundedDown THEN -1 ELSE 0)

\* Line 292, elapsed += poll_interval_seconds, in floating point: adding 0.1 rounds,
\* adding any other interval of the model (1 or 2 seconds, half a second) is exact.
FloatAdd(a, b, clock) ==
    IF clock = "thirtieths" /\ b = Tenth THEN SumOfTenths(((a + 1) \div 3) + 1) ELSE a + b

\* Lines 291-292.
PollSleep ==
    /\ UNCHANGED <<gateVars, fsVars, fn>>
    /\ wpc = "sleep"
    /\ elapsed' = FloatAdd(elapsed, poll_interval_seconds, strace.clock)
    /\ wpc' = "poll"
    /\ UNCHANGED <<strace, timeout_seconds, poll_interval_seconds, has_on_status, idle, data_lines,
                   last_payload, streamResult, status, polls, outcome>>

\* Line 293.
PollTimeout ==
    /\ UNCHANGED <<gateVars, fsVars, fn>>
    /\ wpc = "poll"
    /\ ~(elapsed < timeout_seconds)
    /\ wpc' = "done"
    /\ outcome' = Raise(GenvoyToolError("JOB_TIMEOUT"))
    /\ UNCHANGED <<strace, timeout_seconds, poll_interval_seconds, has_on_status, idle, data_lines,
                   last_payload, streamResult, elapsed, status, polls>>

NextWait ==
    \/ StreamOpen
    \/ StreamTick
    \/ StreamDataLine
    \/ StreamOtherLine
    \/ StreamBlankLine
    \/ StreamTransportError
    \/ StreamClosed
    \/ PollStatus
    \/ PollSleep
    \/ PollTimeout

SpecWait == InitWait /\ [][NextWait]_vars

\* wait_for_completion with the frames and callbacks of its stream attempt recorded,
\* up to MaxFrames frames.
InitStream ==
    /\ FilesAtRest
    /\ GateAtRest
    /\ wpc = "stream_open"
    /\ timeout_seconds = 1
    /\ poll_interval_seconds = 1
    /\ has_on_status \in BOOLEAN
    /\ idle = 0
    /\ data_lines = <<>>
    /\ last_payload = PyNone
    /\ streamResult = Pending
    /\ elapsed = 0
    /\ status = PyNone
    /\ polls = 0
    /\ outcome = Pending
    /\ strace = [NoTrace EXCEPT !.on = TRUE]

SpecStream == InitStream /\ [][NextWait]_vars

\* The polling fallback alone, after a stream attempt that found no stream, with every
\* status call recorded.  The clock counts thirtieths of a second: the timeout is a
\* number of tenths of a second up to MaxTenths, the interval 0.1, 0.5 or 1 second, and
\* the queue answers with one status of each kind.
MaxTenths == 10
PollAnswers ==
    { Dict(FALSE, ABSENT, ABSENT, "IN_PROGRESS", ABSENT, FALSE),
      Dict(FALSE, ABSENT, ABSENT, "COMPLETED", ABSENT, FALSE),
      Dict(FALSE, ABSENT, ABSENT, ABSENT, "FAILED", FALSE) }

InitPoll ==
    /\ FilesAtRest
    /\ GateAtRest
    /\ wpc = "poll"
    /\ timeout_seconds \in { Tenth * t : t \in 0..MaxTenths }
    /\ poll_interval_seconds \in {Tenth, 5 * Tenth, 10 * Tenth}
    /\ has_on_status \in BOOLEAN
    /\ idle = 0
    /\ data_lines = <<>>
    /\ last_payload = PyNone
    /\ streamResult = Raise(GenvoyToolError("SSE_UNAVAILABLE"))
    /\ elapsed = 0
    /\ status = PyNone
    /\ polls = 0
    /\ outcome = Pending
    /\ strace = [NoTrace EXCEPT !.on = TRUE, !.opened = <<404>>, !.statuses = PollAnswers,
                                !.clock = "thirtieths"]

NextPoll ==
    \/ PollStatus
    \/ PollSleep
    \/ PollTimeout

SpecPoll == InitPoll /\ [][NextPoll]_vars

\* The call is scheduled as long as it can take a step.
FairWait == SpecWait /\ WF_vars(NextWait)

(***************************************************************************)
(* Media types and the media URL of a result payload.                      *)
(***************************************************************************)
NoExt == ""
NoneExt == "None"

\* Lines 14-23.
EXT_TO_MEDIA(ext) ==
    CASE ext \in {".png", ".jpg", ".jpeg", ".webp"} -> "image"
      [] ext = ".mp4" -> "video"
      [] ext \in {".mp3", ".wav", ".flac"} -> "audio"
      [] OTHER -> "unknown"

\* Faulty variant of lower: the text is left as it was written.
lowerNot(piece) == piece

\* A header value or a suffix is a sequence of pieces of text; str.lower() turns each
\* piece written in capitals into its small form.
lower(piece) ==
    CASE piece = "IMAGE" -> "image"
      [] piece = "PNG" -> "png"
      [] piece = "VIDEO" -> "video"
      [] piece = "MP4" -> "mp4"
      [] piece = "TEXT" -> "text"
      [] piece = "HTML" -> "html"
      [] piece = ".PNG" -> ".png"
      [] piece = ".MP4" -> ".mp4"
      [] piece = ".JSON" -> ".json"
      [] OTHER -> piece

\* content_type.split(";")[0]: the pieces before the first ";".
RECURSIVE BeforeSemicolon(_)
BeforeSemicolon(text) ==
    IF text = <<>> \/ Head(text) = ";" THEN <<>>
    ELSE <<Head(text)>> \o BeforeSemicolon(Tail(text))

\* str.strip(): white space is taken off both ends.
RECURSIVE LStrip(_), RStrip(_)
LStrip(text) ==
    IF text # <<>> /\ Head(text) = " " THEN LStrip(Tail(text)) ELSE text

RStrip(text) ==
    IF text # <<>> /\ text[Len(text)] = " " THEN RStrip(SubSeq(text, 1, Len(text) - 1))
    ELSE text

\* Line 87.
Norm(content_type) ==
    LET stripped == RStrip(LStrip(BeforeSemicolon(content_type)))
    IN  [k \in 1..Len(stripped) |-> lower(stripped[k])]

\* Lines 25-34.
CONTENT_TYPE_TO_EXT(norm) ==
    CASE norm = <<"image", "/", "png">> -> ".png"
      [] norm = <<"image", "/", "jpeg">> -> ".jpg"
      [] norm = <<"image", "/", "webp">> -> ".webp"
      [] norm = <<"video", "/", "mp4">> -> ".mp4"
      [] norm = <<"audio", "/", "mpeg">> -> ".mp3"
      [] norm = <<"audio", "/", "wav">> -> ".wav"
      [] norm = <<"audio", "/", "x-wav">> -> ".wav"
      [] norm = <<"audio", "/", "flac">> -> ".flac"
      [] OTHER -> NoneExt

\* No Content-Type header (None), or an empty one.
NoContentType == <<>>

\* Lines 78-91; url_ext is the suffix of the URL's path as it is written, content_type
\* the header value or NoContentType.
detect_type_and_ext(url_ext, content_type) ==
    LET ext == lower(url_ext) IN
    IF EXT_TO_MEDIA(ext) # "unknown"
    THEN [media |-> EXT_TO_MEDIA(ext), ext |-> ext]
    ELSE IF content_type = NoContentType THEN [media |-> "unknown", ext |-> NoneExt]
    ELSE IF CONTENT_TYPE_TO_EXT(Norm(content_type)) = NoneExt
         THEN [media |-> "unknown", ext |-> NoneExt]
    ELSE [media |-> EXT_TO_MEDIA(CONTENT_TYPE_TO_EXT(Norm(content_type))),
          ext |-> CONTENT_TYPE_TO_EXT(Norm(content_type))]

\* A string is a sequence of pieces of text: a URL is its scheme, its path, and
\* perhaps a suffix and a query.
UrlJson == <<"https://", "cdn/a", ".json">>
UrlPng == <<"https://", "cdn/b", ".png">>
UrlMp4 == <<"http://", "cdn/c", ".mp4", "?sig=1">>
FtpPng == <<"ftp://", "cdn/d", ".png">>
NoUrl == <<>>

\* Path(urlparse(url).path).suffix: the suffix that ends the path, the query left out.
UrlSuffix(url) ==
    LET path == SelectSeq(url, LAMBDA piece : piece # "?sig=1")
    IN  IF path # <<>> /\ path[Len(path)] \in {".json", ".png", ".mp4"}
        THEN path[Len(path)] ELSE NoExt

\* JSON values: strings, numbers, lists, and objects with their items in the order of
\* the document.
JsonStr(s) == [t |-> "str", s |-> s, items |-> <<>>]
JsonNum == [t |-> "num", s |-> <<>>, items |-> <<>>]
JsonList(items) == [t |-> "list", s |-> <<>>, items |-> items]
JsonDict(items) == [t |-> "dict", s |-> <<>>, items |-> items]
Item(k, v) == [k |-> k, v |-> v]

\* Line 70.
preferred_keys == <<"images", "videos", "audio", "url", "image", "video", "result", "output">>

\* The values a loop over a dict or a list visits, in the order it visits them: lines
\* 70-79 for a dict (the preferred keys that are present, then every value), lines 80-84
\* for a list.
Visited(payload) ==
    IF payload.t = "dict"
    THEN LET at(key) == SelectSeq(payload.items, LAMBDA it : it.k = key)
             RECURSIVE Preferred(_)
             Preferred(keys) ==
                 IF keys = <<>> THEN <<>> ELSE at(Head(keys)) \o Preferred(Tail(keys))
             all == Preferred(preferred_keys) \o payload.items
         IN  [n \in 1..Len(all) |-> all[n].v]
    ELSE IF payload.t = "list" THEN payload.items
    ELSE <<>>

\* detect_type_and_ext(candidate)[0] in {"image", "video", "audio"}, lines 89-92.
IsMedia(url) ==
    detect_type_and_ext(UrlSuffix(url), NoContentType).media \in {"image", "video", "audio"}

\* Faulty variant of Choose: the first candidate, whatever its extension.
ChooseFirst(urls) ==
    IF urls = <<>> THEN NoUrl ELSE urls[1]

\* Lines 86-94: the first candidate with the extension of a medium, else the first.
Choose(urls) ==
    IF urls = <<>> THEN NoUrl
    ELSE IF \E n \in 1..Len(urls) : IsMedia(urls[n])
    THEN urls[CHOOSE n \in 1..Len(urls) :
                  IsMedia(urls[n]) /\ \A m \in 1..(n - 1) : ~IsMedia(urls[m])]
    ELSE urls[1]

RECURSIVE _extract_first_media_url(_)
\* Lines 63-94.
_extract_first_media_url(payload) ==
    IF payload.t = "str"
    THEN IF payload.s # <<>> /\ Head(payload.s) \in {"http://", "https://"}
         THEN payload.s ELSE NoUrl
    ELSE LET visited == Visited(payload)
             found == [n \in 1..Len(visited) |-> _extract_first_media_url(visited[n])]
         IN  Choose(SelectSeq(found, LAMBDA url : url # NoUrl))

(***************************************************************************)
(* _generate_once and generate_batch.                                      *)
(***************************************************************************)
\* wait_for_completion is at rest.
WaitAtRest ==
    /\ strace = NoTrace
    /\ wpc = "none"
    /\ timeout_seconds = 0
    /\ poll_interval_seconds = 0
    /\ has_on_status = FALSE
    /\ idle = 0
    /\ data_lines = <<>>
    /\ last_payload = PyNone
    /\ streamResult = Pending
    /\ elapsed = 0
    /\ status = PyNone
    /\ polls = 0
    /\ outcome = Pending

InitGate ==
    /\ FilesAtRest
    /\ WaitAtRest
    /\ orch = NoOrch
    /\ model_ids = <<>>
    /\ count \in 1..MaxCount
    /\ repo_dir \in BOOLEAN
    /\ bpc = "new"
    /\ pc = [i \in 1..count |-> "new"]
    /\ err = [i \in 1..count |-> NoError]
    /\ log = [i \in 1..count |-> <<>>]
    /\ client = [i \in 1..count |-> "none"]
    /\ SEMAPHORE = NewSemaphore(count)
    /\ oGated = 0
    /\ files = <<>>
    /\ failed = <<>>

\* The remote steps of an orchestration, made inside the gated section, and the steps
\* that follow it.
GatedSteps == {"submit", "wait", "result"}
Steps == GatedSteps \cup {"download", "copy"}

\* What each step can raise.
StepErrors(step) ==
    CASE step = "submit" -> {GenvoyToolError("RATE_LIMITED"), GenvoyToolError("INVALID_RESPONSE")}
      [] step = "wait" -> {GenvoyToolError("JOB_FAILED"), GenvoyToolError("JOB_TIMEOUT")}
      [] step = "result" -> {GenvoyToolError("MODEL_NOT_FOUND")}
      [] step = "download" -> {GenvoyToolError("DOWNLOAD_FAILED")}
      [] step = "copy" -> {GenvoyToolError("PATH_TRAVERSAL_BLOCKED")}

\* What lines 247-253, between the result fetch and the download, can raise.
PrepareErrors == {GenvoyToolError("INVALID_RESPONSE"), GenvoyToolError("PATH_TRAVERSAL_BLOCKED")}

\* Faulty variant of StepAfter: the result is fetched right after submit.
StepAfterSkipsWait(step, ok, repo) ==
    IF ~ok THEN "failed"
    ELSE CASE step = "submit" -> "result"
           [] step = "wait" -> "result"
           [] step = "result" -> "download"
           [] step = "download" -> IF repo THEN "copy" ELSE "done"
           [] step = "copy" -> "done"

\* Lines 229-286: the position that follows a step.
StepAfter(step, ok, repo) ==
    IF ~ok THEN "failed"
    ELSE CASE step = "submit" -> "wait"
           [] step = "wait" -> "result"
           [] step = "result" -> "download"
           [] step = "download" -> IF repo THEN "copy" ELSE "done"
           [] step = "copy" -> "done"

Cur == [sem |-> SEMAPHORE, pc |-> pc, err |-> err, log |-> log, client |-> client]

Set(st) ==
    /\ SEMAPHORE' = st.sem
    /\ pc' = st.pc
    /\ err' = st.err
    /\ log' = st.log
    /\ client' = st.client

\* Faulty variant of Leave: the client is closed, the slot is kept.
LeaveKeepsSlot(st, i, raised) ==
    [st EXCEPT !.client[i] = "closed"]

\* Line 245, client.aclose(): an open client of an item that holds its slot becomes
\* "closed"; the other values tell a close that came after the release, and a close of
\* a client that was not open.
aclose(st, i) ==
    [st EXCEPT !.client[i] = IF @ = "open" /\ st.sem.owners[i] = 1 THEN "closed"
                             ELSE IF @ = "open" THEN "closed outside the gate"
                             ELSE "closed again"]

\* Faulty variant of Leave: the slot is released first, the client closed after it.
LeaveReleasesFirst(st, i, raised) ==
    aclose([st EXCEPT !.sem = GateExit(@, i, raised)], i)

\* Lines 244-245 and the end of the async with block: the finally clause closes the
\* client, then __aexit__ releases the slot.
Leave(st, i, raised) ==
    [aclose(st, i) EXCEPT !.sem = GateExit(@, i, raised)]

\* Lines 227-230: item i has its slot; it creates its client and sends the submit call.
Granted(st, i, clientOk) ==
    IF clientOk
    THEN [st EXCEPT !.client[i] = "open", !.pc[i] = "submit",
                    !.log[i] = Append(@, <<"submit", "start">>)]
    ELSE [st EXCEPT !.pc[i] = "failed", !.err[i] = OtherException("RuntimeError"),
                    !.sem = GateExit(@, i, TRUE)]

\* Line 226: item i enters "async with SEMAPHORE".
Enter(st, i, clientOk) ==
    IF ~locked(st.sem)
    THEN Granted([st EXCEPT !.sem = acquire(@, i)], i, clientOk)
    ELSE [st EXCEPT !.sem = acquire(@, i), !.pc[i] = "queued"]

RECURSIVE StartAll(_, _, _)
StartAll(st, i, oks) ==
    IF i > Len(st.pc) THEN st ELSE StartAll(Enter(st, i, oks[i]), i + 1, oks)

\* Lines 427-439: the tasks are created and each runs, in order, up to its first await.
GenerateBatch ==
    /\ bpc = "new"
    /\ bpc' = "gather"
    /\ \E oks \in [1..count -> BOOLEAN] :
         LET st == StartAll(Cur, 1, oks) IN Set(st)
    /\ UNCHANGED <<orch, model_ids, count, repo_dir, oGated, files, failed>>
    /\ UNCHANGED <<waitVars, fsVars, fn>>

\* Line 226, after the wait: the woken item leaves the queue and goes on.
Resume(i) ==
    /\ pc[i] = "queued"
    /\ \E k \in 1..Len(SEMAPHORE.waiters), clientOk \in BOOLEAN :
         /\ SEMAPHORE.waiters[k] = [id |-> i, done |-> TRUE]
         /\ LET st == Granted([Cur EXCEPT !.sem = resume(@, k)], i, clientOk) IN Set(st)
    /\ UNCHANGED <<orch, model_ids, count, repo_dir, bpc, oGated, files, failed>>
    /\ UNCHANGED <<waitVars, fsVars, fn>>

\* A step of item i ends with e (NoError: it succeeded); prep is what the code between
\* the result fetch and the download raises.
Finish(st, i, step, e, prep) ==
    LET ok == e = NoError
        next == IF ok /\ step = "result" /\ prep # NoError THEN "failed"
                ELSE StepAfter(step, ok, repo_dir)
        st1 == [st EXCEPT !.log[i] = Append(@, <<step, IF ok THEN "ok" ELSE "failed">>)]
        st2 == IF step \in GatedSteps /\ (~ok \/ step = "result")
               THEN Leave(st1, i, ~ok) ELSE st1
        st3 == [st2 EXCEPT !.pc[i] = next, !.err[i] = IF ok THEN prep ELSE e]
    IN  IF next \in Steps THEN [st3 EXCEPT !.log[i] = Append(@, <<next, "start">>)] ELSE st3

\* The request identifier the remote gives its n-th job.
RequestIdText(n) ==
    CASE n = 1 -> "r1"
      [] n = 2 -> "r2"
      [] n = 3 -> "r3"
      [] OTHER -> "r4"

\* The bodies a submit call can return: each of the two keys is missing, holds the
\* empty string, or holds the identifier of the job.
SubmitBodies(id) == [request_id : {ABSENT, "", id}, requestId : {ABSENT, "", id}]

\* Line 231: a or b is a when a is truthy, else b.
request_id_raw(submit_data) ==
    IF submit_data.request_id \notin {ABSENT, ""} THEN submit_data.request_id
    ELSE submit_data.requestId

\* Faulty variant of HasRequestId: only a missing identifier is refused.
HasRequestIdNotNone(raw) == raw # ABSENT

\* Line 232: bool(request_id_raw).
HasRequestId(raw) == raw \notin {ABSENT, ""}

\* A call sent to the remote by item i.
RemoteCall(i, op, request_id, url) ==
    [by |-> i, op |-> op, model_id |-> IF model_ids = <<>> THEN <<>> ELSE model_ids[i],
     request_id |-> request_id, url |-> url]

\* Faulty variant of RequestIdOf: the identifier is kept in one place for all items.
RequestIdShared(o, i) == RequestIdText(o.issued)

\* The local variable request_id of item i, line 233.
RequestIdOf(o, i) == o.request_id[i]

\* The record of what item i received from its submit call.
Submitted(o, i, submit_data) ==
    IF ~o.on THEN o
    ELSE LET o1 == [o EXCEPT !.issued = @ + 1, !.got[i] = TRUE, !.submitted[i] = submit_data,
                             !.request_id[i] = request_id_raw(submit_data)]
         IN  IF HasRequestId(request_id_raw(submit_data))
             THEN [o1 EXCEPT !.calls[i] = Append(@, RemoteCall(i, "stream", RequestIdOf(o1, i), NoUrl))]
             ELSE o1

\* Lines 230-233: the submit call ends: it raised, or it returned a body, and the body
\* holds a request identifier or does not.
SubmitDone(i) ==
    /\ pc[i] = "submit"
    /\ \/ /\ \E e \in StepErrors("submit") : LET st == Finish(Cur, i, "submit", e, NoError) IN Set(st)
          /\ orch' = orch
       \/ \E submit_data \in SubmitBodies(RequestIdText(orch.issued + 1)) :
            LET e == IF HasRequestId(request_id_raw(submit_data)) THEN NoError
                     ELSE GenvoyToolError("INVALID_RESPONSE")
                st == Finish(Cur, i, "submit", e, NoError)
            IN  /\ Set(st)
                /\ orch' = Submitted(orch, i, submit_data)
    /\ UNCHANGED <<model_ids, count, repo_dir, bpc, oGated, files, failed>>
    /\ UNCHANGED <<waitVars, fsVars, fn>>

\* Lines 235-243: wait_for_completion ends, after status polls or without any; when it
\* returned, the result call is sent.
WaitDone(i) ==
    /\ pc[i] = "wait"
    /\ \E e \in {NoError} \cup StepErrors("wait"), polled \in BOOLEAN :
         /\ LET st == Finish(Cur, i, "wait", e, NoError) IN Set(st)
         /\ orch' =
              IF ~orch.on THEN orch
              ELSE LET polls_sent == IF polled THEN <<RemoteCall(i, "status", RequestIdOf(orch, i), NoUrl)>>
                                 ELSE <<>>
                       result_sent == IF e = NoError
                                 THEN <<RemoteCall(i, "result", RequestIdOf(orch, i), NoUrl)>>
                                 ELSE <<>>
                   IN  [orch EXCEPT !.calls[i] = @ \o polls_sent \o result_sent]
    /\ UNCHANGED <<model_ids, count, repo_dir, bpc, oGated, files, failed>>
    /\ UNCHANGED <<waitVars, fsVars, fn>>

\* The result payloads of the items: an empty object, an object with no URL in it, and
\* objects with a URL at the top or deeper.
ItemResults ==
    { JsonDict(<<>>),
      JsonDict(<<Item("data", JsonList(<<JsonStr(FtpPng), JsonNum>>))>>),
      JsonDict(<<Item("output", JsonStr(UrlPng))>>),
      JsonDict(<<Item("data", JsonDict(<<Item("z", JsonList(<<JsonStr(UrlJson)>>))>>))>>) }

\* Faulty variant of HasUrl: any string will do.
HasUrlAnyString(raw) == TRUE

\* Line 248: bool(result_url_raw).
HasUrl(raw) == raw # NoUrl

\* Whether the output path requested for item i resolves outside the working root:
\* either, unless the request fixes it.
Escapes(o, i) == IF o.escapes = <<>> THEN BOOLEAN ELSE {o.escapes[i]}

\* Faulty variant of Prepare: the resolved output path is not tested.
PrepareUnchecked(result_url_raw, blocked) ==
    IF ~HasUrl(result_url_raw) THEN GenvoyToolError("INVALID_RESPONSE") ELSE NoError

\* Lines 247-252: what the code between the result fetch and the download raises, the
\* test of resolve_output_path (filesystem.py line 99) after the test for a media URL.
Prepare(result_url_raw, blocked) ==
    IF ~HasUrl(result_url_raw) THEN GenvoyToolError("INVALID_RESPONSE")
    ELSE IF blocked THEN GenvoyToolError("PATH_TRAVERSAL_BLOCKED")
    ELSE NoError

\* Lines 243-258: the result call ends; on success the gated section is left, the media
\* URL extracted, the output path resolved and the download started.
ResultDone(i) ==
    /\ pc[i] = "result"
    /\ \/ /\ \E e \in StepErrors("result") : LET st == Finish(Cur, i, "result", e, NoError) IN Set(st)
          /\ orch' = orch
       \/ \E result_payload \in ItemResults, blocked \in Escapes(orch, i) :
            LET result_url_raw == _extract_first_media_url(result_payload)
                prep == Prepare(result_url_raw, blocked)
                st == Finish(Cur, i, "result", NoError, prep)
            IN  /\ Set(st)
                /\ orch' =
                     IF ~orch.on THEN orch
                     ELSE LET o1 == [orch EXCEPT !.result[i] = result_payload]
                          IN  IF prep = NoError
                              THEN [o1 EXCEPT !.calls[i] = Append(@, RemoteCall(i, "download", "", result_url_raw))]
                              ELSE o1
    /\ UNCHANGED <<model_ids, count, repo_dir, bpc, oGated, files, failed>>
    /\ UNCHANGED <<waitVars, fsVars, fn>>

\* Lines 254-265: download_to_file ends.
DownloadDone(i) ==
    /\ pc[i] = "download"
    /\ \E e \in {NoError} \cup StepErrors("download") : LET st == Finish(Cur, i, "download", e, NoError) IN Set(st)
    /\ UNCHANGED <<orch, model_ids, count, repo_dir, bpc, oGated, files, failed>>
    /\ UNCHANGED <<waitVars, fsVars, fn>>

\* Lines 265-286: copy_to_repo ends.
CopyDone(i) ==
    /\ pc[i] = "copy"
    /\ \E e \in {NoError} \cup StepErrors("copy") : LET st == Finish(Cur, i, "copy", e, NoError) IN Set(st)
    /\ UNCHANGED <<orch, model_ids, count, repo_dir, bpc, oGated, files, failed>>
    /\ UNCHANGED <<waitVars, fsVars, fn>>

Settled(i) == pc[i] \in {"done", "failed"}

\* str(exception).
StrOf(e) == IF e.genvoy THEN <<e.code, ": ", "message">> ELSE <<"message">>

\* Faulty variant of FailedEntry: the index counts from 0.
FailedEntryZeroBased(idx, e) == [index |-> idx, error |-> StrOf(e)]

\* Line 445; idx counts from 0.
FailedEntry(idx, e) == [index |-> idx + 1, error |-> StrOf(e)]

\* The GenerateResult of item idx (from 0): its output path is <output_dir>/<slug>_<idx+1>.
FileEntry(idx) == [output_path |-> idx + 1]

RECURSIVE CollectFiles(_), CollectFailed(_)
\* Lines 441-447, over results[0..n-1].
CollectFiles(n) ==
    IF n = 0 THEN <<>>
    ELSE IF pc[n] = "failed" THEN CollectFiles(n - 1)
    ELSE Append(CollectFiles(n - 1), FileEntry(n - 1))

CollectFailed(n) ==
    IF n = 0 THEN <<>>
    ELSE IF pc[n] = "failed" THEN Append(CollectFailed(n - 1), FailedEntry(n - 1, err[n]))
    ELSE CollectFailed(n - 1)

\* Lines 439-449: gather returns once every task has settled.
Collect ==
    /\ bpc = "gather"
    /\ \A i \in 1..count : Settled(i)
    /\ bpc' = "returned"
    /\ files' = CollectFiles(count)
    /\ failed' = CollectFailed(count)
    /\ UNCHANGED <<orch, model_ids, count, repo_dir, pc, err, log, client, SEMAPHORE, oGated>>
    /\ UNCHANGED <<waitVars, fsVars, fn>>

(***************************************************************************)
(* The orchestrations of other tool calls (generate, other fan-outs): the  *)
(* same _generate_once, counted by where they are.                         *)
(***************************************************************************)
OthersQueued == Cardinality({ k \in 1..Len(SEMAPHORE.waiters) : SEMAPHORE.waiters[k].id = 0 })

\* Line 226: another orchestration enters "async with SEMAPHORE".
OtherArrive ==
    /\ OthersQueued + oGated < MaxOthers
    /\ SEMAPHORE' = acquire(SEMAPHORE, 0)
    /\ oGated' = IF locked(SEMAPHORE) THEN oGated ELSE oGated + 1
    /\ UNCHANGED <<orch, model_ids, count, repo_dir, bpc, pc, err, log, client, files, failed>>
    /\ UNCHANGED <<waitVars, fsVars, fn>>

\* Line 226, after the wait.
OtherResume ==
    /\ \E k \in 1..Len(SEMAPHORE.waiters) :
         /\ SEMAPHORE.waiters[k] = [id |-> 0, done |-> TRUE]
         /\ SEMAPHORE' = resume(SEMAPHORE, k)
    /\ oGated' = oGated + 1
    /\ UNCHANGED <<orch, model_ids, count, repo_dir, bpc, pc, err, log, client, files, failed>>
    /\ UNCHANGED <<waitVars, fsVars, fn>>

\* Lines 227-245: its gated section ends, with or without a result.
OtherLeaveGate ==
    /\ oGated > 0
    /\ oGated' = oGated - 1
    /\ \E raised \in BOOLEAN : SEMAPHORE' = GateExit(SEMAPHORE, 0, raised)
    /\ UNCHANGED <<orch, model_ids, count, repo_dir, bpc, pc, err, log, client, files, failed>>
    /\ UNCHANGED <<waitVars, fsVars, fn>>

ItemStep(i) ==
    /\ i \in 1..count
    /\ \/ Resume(i)
       \/ SubmitDone(i)
       \/ WaitDone(i)
       \/ ResultDone(i)
       \/ DownloadDone(i)
       \/ CopyDone(i)

ResumeAny == \E i \in 1..count : Resume(i)
SubmitDoneAny == \E i \in 1..count : SubmitDone(i)
WaitDoneAny == \E i \in 1..count : WaitDone(i)
ResultDoneAny == \E i \in 1..count : ResultDone(i)
DownloadDoneAny == \E i \in 1..count : DownloadDone(i)
CopyDoneAny == \E i \in 1..count : CopyDone(i)

NextGate ==
    \/ GenerateBatch
    \/ ResumeAny
    \/ SubmitDoneAny
    \/ WaitDoneAny
    \/ ResultDoneAny
    \/ DownloadDoneAny
    \/ CopyDoneAny
    \/ Collect
    \/ OtherArrive
    \/ OtherResume
    \/ OtherLeaveGate

\* A batch of up to MaxCount items among the orchestrations of other tool calls.
SpecGate == InitGate /\ [][NextGate]_vars

\* Every task of the event loop that can run does run, and every orchestration that was
\* admitted leaves the gated section.
FairGate ==
    /\ SpecGate
    /\ \A i \in 1..MaxCount : WF_vars(ItemStep(i))
    /\ WF_vars(Collect)
    /\ WF_vars(OtherResume)
    /\ WF_vars(OtherLeaveGate)

InitBatch ==
    /\ FilesAtRest
    /\ WaitAtRest
    /\ orch = NoOrch
    /\ model_ids = <<>>
    /\ count \in 1..BatchCount
    /\ repo_dir \in BOOLEAN
    /\ bpc = "new"
    /\ pc = [i \in 1..count |-> "new"]
    /\ err = [i \in 1..count |-> NoError]
    /\ log = [i \in 1..count |-> <<>>]
    /\ client = [i \in 1..count |-> "none"]
    /\ SEMAPHORE = NewSemaphore(count)
    /\ oGated = 0
    /\ files = <<>>
    /\ failed = <<>>

NextBatch ==
    \/ GenerateBatch
    \/ SubmitDoneAny
    \/ WaitDoneAny
    \/ ResultDoneAny
    \/ DownloadDoneAny
    \/ CopyDoneAny
    \/ Collect

\* A batch of up to BatchCount items with no other tool call running.
SpecBatch == InitBatch /\ [][NextBatch]_vars

(***************************************************************************)
(* Paths (filesystem.py).  The working directory is /w.  A raw path is     *)
(* what a caller passes: absolute or relative to the working directory,    *)
(* directory components (".." among them) and a file name.  A file name    *)
(* is a base, the numbers unique_path has appended ("hero_1_2" has base    *)
(* "hero" and idx <<1, 2>>) and an extension ("" for none).                *)
(***************************************************************************)
Root == <<"w">>

FileName(base, idx, ext) == [base |-> base, idx |-> idx, ext |-> ext]

RawPath(abs, parts, name) == [abs |-> abs, parts |-> parts, name |-> name]

RECURSIVE Collapse(_, _)
\* Path.resolve() on the components: ".." leaves a directory, and the root is its own
\* parent.  Symbolic links are not modelled.
Collapse(acc, parts) ==
    IF parts = <<>> THEN acc
    ELSE IF Head(parts) = ".."
         THEN Collapse(IF acc = <<>> THEN <<>> ELSE SubSeq(acc, 1, Len(acc) - 1), Tail(parts))
    ELSE Collapse(Append(acc, Head(parts)), Tail(parts))

\* Lines 96-97, 154-155: "if not raw.is_absolute(): raw = Path.cwd() / raw"; the
\* components of the parent directory, from the filesystem root.
AbsParts(raw) == IF raw.abs THEN raw.parts ELSE Root \o raw.parts

\* Path.resolve().
Resolved(raw) == [dir |-> Collapse(<<>>, AbsParts(raw)), name |-> raw.name]

\* A resolved path, passed on as a Path.
AsRaw(path) == RawPath(TRUE, path.dir, path.name)

\* Lines 45-50: path.relative_to(root) succeeds.
_is_within(path, root) ==
    /\ Len(root) <= Len(path.dir)
    /\ SubSeq(path.dir, 1, Len(root)) = root

\* Faulty variant of ensure_safe_path: the path is not resolved before the test.
EnsureUnresolved(raw) ==
    [ok |-> _is_within([dir |-> AbsParts(raw), name |-> raw.name], Root),
     path |-> Resolved(raw)]

\* Lines 53-61: ok is FALSE when PATH_TRAVERSAL_BLOCKED is raised.
ensure_safe_path(raw) ==
    [ok |-> _is_within(Resolved(raw), Root), path |-> Resolved(raw)]

\* Path.mkdir(parents=True, exist_ok=True) on the parent of raw: every directory on the
\* way is made to exist.
Mkdirs(raw, ds) ==
    ds \cup { Collapse(<<>>, SubSeq(AbsParts(raw), 1, k)) : k \in 0..Len(AbsParts(raw)) }

\* path.with_suffix(ext).
WithSuffix(path, ext) == [path EXCEPT !.name.ext = ext]

\* Line 72: parent / f"{stem}_{idx}{suffix}".
Candidate(path, idx) == [path EXCEPT !.name.idx = Append(@, idx)]

\* Faulty variant of unique_path: the first candidate is taken unseen.
UniqueFirstCandidate(path, existing) ==
    IF path \notin existing THEN path ELSE Candidate(path, 1)

\* Lines 64-75; existing is the set of paths at which an entry exists.  The loop ends
\* at the latest at idx = Cardinality(existing) + 1.
unique_path(path, existing) ==
    IF path \notin existing THEN path
    ELSE LET free == { k \in 1..(Cardinality(existing) + 1) : Candidate(path, k) \notin existing }
             idx == CHOOSE k \in free : \A j \in free : k <= j
         IN  Candidate(path, idx)

(***************************************************************************)
(* resolve_output_path, download_to_file and copy_to_repo, called one      *)
(* after the other as _generate_once calls them (lines 251-265 of          *)
(* server.py), and download_to_file called on its own.                     *)
(***************************************************************************)
\* ".." k times.
Ups(k) == [j \in 1..k |-> ".."]

\* Directory parts of the requested paths: below the working directory, up and out of
\* it by any number of "..", and back into it.
RawParts ==
    { <<"out">> \o Ups(k) \o t : k \in 0..MaxUp, t \in {<<>>, <<"x">>} }

AbsoluteParts == { <<"x">>, <<"w", "out">> }

Names == { FileName("hero", <<>>, ".png"), FileName("hero", <<>>, NoExt) }

RawPaths ==
    { RawPath(FALSE, parts, name) : parts \in RawParts, name \in Names }
    \cup { RawPath(TRUE, parts, name) : parts \in AbsoluteParts, name \in Names }

\* The extension of the result URL's path: a known one, or none.
UrlExts == {".png", NoExt}

ContentTypes == {<<"image", "/", "png">>, NoContentType}

\* Status codes of the asset response.
AssetStatusCodes == {200, 403, 404, 500}

\* Line 111, in tenths of a second.
retries == <<5, 10, 20>>

NoPath == [dir |-> <<>>, name |-> FileName("", <<>>, NoExt)]

NoCall ==
    [op |-> "none", direct |-> FALSE, url_ext |-> NoExt, output_path |-> AsRaw(NoPath),
     attempt |-> 0, requests |-> 0, delays |-> <<>>, status_code |-> 0,
     content_type |-> NoContentType,
     media_type |-> "unknown", path |-> NoPath, total |-> 0, src |-> NoPath,
     download |-> NoPath, opened |-> {}]

\* What a call ended with, and the requests and delays the call had made by then.
Returned(op, path, size, c) ==
    [op |-> op, kind |-> "return", path |-> path, size |-> size, code |-> "",
     arg |-> c.output_path, requests |-> c.requests, delays |-> c.delays,
     status_code |-> c.status_code, opened |-> c.opened]
Raised(op, code, c) ==
    [op |-> op, kind |-> "raise", path |-> NoPath, size |-> 0, code |-> code,
     arg |-> c.output_path, requests |-> c.requests, delays |-> c.delays,
     status_code |-> c.status_code, opened |-> c.opened]
NoResult ==
    [op |-> "none", kind |-> "none", path |-> NoPath, size |-> 0, code |-> "",
     arg |-> AsRaw(NoPath), requests |-> 0, delays |-> <<>>, status_code |-> 0,
     opened |-> {}]

Exists == DOMAIN disk

\* The directories that exist before any call: the filesystem root and the working
\* directory.
InitialDirs == { <<>>, Root }

\* What generations before the first call have left in the output directory.
OutDir == Root \o <<"out">>
Earlier(idx) == [dir |-> OutDir, name |-> FileName("hero", idx, ".png")]
EarlierFiles == { {}, {Earlier(<<>>)}, {Earlier(<<>>), Earlier(<<1>>)} }
OldContent == [size |-> 1, from |-> 0]

\* One call, with any path, any response and any failure, on a disk that earlier
\* generations may have written to.
InitFiles ==
    /\ WaitAtRest
    /\ GateAtRest
    /\ fn = NoFn
    /\ fin = [paths |-> RawPaths, repos |-> RawPaths, gens |-> 1,
              codes |-> AssetStatusCodes, faults |-> TRUE]
    /\ \E earlier \in EarlierFiles :
         /\ disk = [p \in earlier |-> OldContent]
         /\ dirs = InitialDirs \cup { p.dir : p \in earlier }
    /\ fpc = "idle"
    /\ fcall = NoCall
    /\ fret = NoResult
    /\ gens = 0
    /\ gres = "none"
    /\ snap = <<>>
    /\ gsnap = <<>>

\* download_to_file is entered: lines 111-116, up to the request.
EnterDownload(url_ext, output_path, direct) ==
    [NoCall EXCEPT !.op = "download", !.direct = direct, !.url_ext = url_ext,
                   !.output_path = output_path]

\* A call ends by raising: a generation ends with it.
RaiseFrom(op, code, c) ==
    /\ fret' = Raised(op, code, c)
    /\ fpc' = "idle"
    /\ fcall' = NoCall
    /\ gres' = IF gres = "running" THEN "failed" ELSE gres

\* Faulty variant of ResolveChecked: the path is tested before its parent is created,
\* and nothing is created for a path that is refused.
ResolveCheckedFirst(raw, ds) ==
    [dirs |-> IF ensure_safe_path(raw).ok THEN Mkdirs(raw, ds) ELSE ds,
     safe |-> ensure_safe_path(raw)]

\* Lines 98-99, 156-157 (and 126-127): the parent directory is created, then the path
\* is tested.
ResolveChecked(raw, ds) ==
    [dirs |-> Mkdirs(raw, ds), safe |-> ensure_safe_path(raw)]

\* Lines 251-254 of server.py, lines 94-102: a generation resolves its output path and
\* enters download_to_file.
ResolveOutputPath ==
    /\ fpc = "idle"
    /\ gens < fin.gens
    /\ gens' = gens + 1
    /\ snap' = disk
    /\ gsnap' = disk
    /\ UNCHANGED <<disk, fin>>
    /\ \E raw \in fin.paths, url_ext \in UrlExts :
         LET preferred_ext == detect_type_and_ext(url_ext, NoContentType).ext
             r == ResolveChecked(raw, dirs)
             safe == IF r.safe.path.name.ext = NoExt /\ preferred_ext # NoneExt
                     THEN WithSuffix(r.safe.path, preferred_ext)
                     ELSE r.safe.path
             out == unique_path(safe, Exists)
         IN  /\ dirs' = r.dirs
             /\ IF ~r.safe.ok
                THEN /\ fret' = Raised("resolve_output_path", "PATH_TRAVERSAL_BLOCKED",
                                         [NoCall EXCEPT !.output_path = raw])
                     /\ fpc' = "idle"
                     /\ fcall' = NoCall
                     /\ gres' = "failed"
                ELSE /\ fret' = Returned("resolve_output_path", out, 0,
                                           [NoCall EXCEPT !.output_path = raw])
                     /\ fpc' = "request"
                     /\ fcall' = EnterDownload(url_ext, AsRaw(out), FALSE)
                     /\ gres' = "running"
    /\ UNCHANGED <<waitVars, gateVars, fn>>

\* download_to_file called on its own, with any output path.
DownloadDirect ==
    /\ fpc = "idle"
    /\ gens < fin.gens
    /\ gens' = gens + 1
    /\ snap' = disk
    /\ gsnap' = disk
    /\ gres' = "direct"
    /\ fpc' = "request"
    /\ \E raw \in fin.paths, url_ext \in UrlExts : fcall' = EnterDownload(url_ext, raw, TRUE)
    /\ fret' = NoResult
    /\ UNCHANGED <<disk, dirs, fin>>
    /\ UNCHANGED <<waitVars, gateVars, fn>>

\* Faulty variant of TransportFailure: one attempt more is made.
TransportFailureOnceMore(c) ==
    IF c.attempt >= Len(retries) + 1
    THEN RaiseFrom("download_to_file", "DOWNLOAD_FAILED", c)
    ELSE /\ fpc' = "sleep"
         /\ fcall' = [c EXCEPT !.delays = Append(@, retries[Len(retries)])]
         /\ UNCHANGED <<fret, gres>>

\* Lines 145-149: a transport failure; the next attempt is made after a delay unless
\* the delays are used up.
TransportFailure(c) ==
    IF c.attempt >= Len(retries)
    THEN RaiseFrom("download_to_file", "DOWNLOAD_FAILED", c)
    ELSE /\ fpc' = "sleep"
         /\ fcall' = [c EXCEPT !.delays = Append(@, retries[c.attempt + 1])]
         /\ UNCHANGED <<fret, gres>>

\* Lines 115-116, 145: the request fails before a response arrives.
DlConnectError ==
    /\ fpc = "request"
    /\ fin.faults
    /\ TransportFailure([fcall EXCEPT !.requests = @ + 1])
    /\ UNCHANGED <<disk, dirs, gens, snap, gsnap, fin>>
    /\ UNCHANGED <<waitVars, gateVars, fn>>

\* Faulty variant of StatusError: 403 and 404 are not told apart from other errors.
StatusErrorNoCdn(status_code) ==
    IF status_code >= 400 THEN "DOWNLOAD_FAILED" ELSE ""

\* Lines 117-119, 141-144: the error a response status is raised as, "" for none.
StatusError(status_code) ==
    IF status_code \in {403, 404} THEN "CDN_EXPIRED"
    ELSE IF status_code >= 400 THEN "DOWNLOAD_FAILED"
    ELSE ""

\* Lines 116-127, 141-144: a response arrives.
DlResponse ==
    /\ fpc = "request"
    /\ \E status_code \in fin.codes, content_type \in ContentTypes :
         LET c == [fcall EXCEPT !.requests = @ + 1, !.status_code = status_code] IN
         IF StatusError(status_code) # ""
         THEN RaiseFrom("download_to_file", StatusError(status_code), c) /\ UNCHANGED dirs
         ELSE LET d == detect_type_and_ext(fcall.url_ext, content_type)
                  given == Resolved(fcall.output_path)
                  path == IF given.name.ext = NoExt /\ d.ext # NoneExt
                          THEN unique_path(WithSuffix(given, d.ext), Exists)
                          ELSE given
                  raw == RawPath(fcall.output_path.abs, fcall.output_path.parts, path.name)
                  r == ResolveChecked(raw, dirs)
              IN  /\ dirs' = r.dirs
                  /\ IF ~r.safe.ok
                     THEN RaiseFrom("download_to_file", "PATH_TRAVERSAL_BLOCKED", c)
                     ELSE /\ fpc' = "open"
                          /\ fcall' = [c EXCEPT !.content_type = content_type,
                                                     !.media_type = d.media,
                                                     !.path = r.safe.path]
                          /\ UNCHANGED <<fret, gres>>
    /\ UNCHANGED <<disk, gens, snap, gsnap, fin>>
    /\ UNCHANGED <<waitVars, gateVars, fn>>

\* Faulty variant of Opened: the file is opened for appending.
OpenedForAppend(d, path, g) ==
    [p \in DOMAIN d \cup {path} |->
        IF p = path /\ p \notin DOMAIN d THEN [size |-> 0, from |-> g] ELSE d[p]]

\* Line 130: open(path, "wb") creates the file, or empties the one in place.
Opened(d, path, g) ==
    [p \in DOMAIN d \cup {path} |-> IF p = path THEN [size |-> 0, from |-> g] ELSE d[p]]

\* Lines 129-130: the file is opened.
DlOpen ==
    /\ fpc = "open"
    /\ disk' = Opened(disk, fcall.path, gens)
    /\ fcall' = [fcall EXCEPT !.total = 0, !.opened = @ \cup {fcall.path}]
    /\ fpc' = "body"
    /\ UNCHANGED <<dirs, fret, gens, gres, snap, gsnap, fin>>
    /\ UNCHANGED <<waitVars, gateVars, fn>>

\* Lines 131-133: a chunk of one byte arrives and is written.
DlChunk ==
    /\ fpc = "body"
    /\ fcall.total < MaxChunks
    /\ fcall' = [fcall EXCEPT !.total = @ + 1]
    /\ disk' = [disk EXCEPT ![fcall.path].size = @ + 1]
    /\ UNCHANGED <<dirs, fpc, fret, gens, gres, snap, gsnap, fin>>
    /\ UNCHANGED <<waitVars, gateVars, fn>>

\* Lines 131, 145: the body breaks off.
DlBodyError ==
    /\ fpc = "body"
    /\ fin.faults
    /\ TransportFailure(fcall)
    /\ UNCHANGED <<disk, dirs, gens, snap, gsnap, fin>>
    /\ UNCHANGED <<waitVars, gateVars, fn>>

\* Lines 148-149: the delay is over.
DlWake ==
    /\ fpc = "sleep"
    /\ fcall' = [fcall EXCEPT !.attempt = @ + 1]
    /\ fpc' = "request"
    /\ UNCHANGED <<disk, dirs, fret, gens, gres, snap, gsnap, fin>>
    /\ UNCHANGED <<waitVars, gateVars, fn>>

\* Lines 135-140: the body is complete and the DownloadResult is returned.
DlReturn ==
    /\ fpc = "body"
    /\ fret' = Returned("download_to_file", fcall.path, fcall.total, fcall)
    /\ IF fcall.direct
       THEN fpc' = "idle" /\ fcall' = NoCall
       ELSE fpc' = "downloaded" /\ fcall' = [NoCall EXCEPT !.download = fcall.path]
    /\ UNCHANGED <<disk, dirs, gens, gres, snap, gsnap, fin>>
    /\ UNCHANGED <<waitVars, gateVars, fn>>

\* Line 260 of server.py: no repo_path was given; the generation returns its result.
NoCopy ==
    /\ fpc = "downloaded"
    /\ fpc' = "idle"
    /\ fcall' = NoCall
    /\ gres' = "ok"
    /\ UNCHANGED <<disk, dirs, fret, gens, snap, gsnap, fin>>
    /\ UNCHANGED <<waitVars, gateVars, fn>>

\* Faulty variant of CopyTarget: the destination is used as given.
CopyTargetAsGiven(target, existing) == target

\* Line 158: target = unique_path(target).
CopyTarget(target, existing) == unique_path(target, existing)

\* Faulty variant of AfterFailedCopy: the downloaded file is removed again.
AfterFailedCopyRolledBack(d, download) == [p \in DOMAIN d \ {download} |-> d[p]]

\* Lines 260-286 of server.py: the disk after copy_to_repo raised.  No except or
\* finally clause stands around the call, so the exception leaves _generate_once and
\* the file that download_to_file wrote is left as it is.
AfterFailedCopy(d, download) == d

\* Lines 261-265 of server.py, lines 152-159: copy_to_repo up to its await.
CopyToRepo ==
    /\ fpc = "downloaded"
    /\ snap' = disk
    /\ \E repo_path \in fin.repos :
         LET repo_target == IF repo_path.name.ext = NoExt /\ fcall.download.name.ext # NoExt
                            THEN [repo_path EXCEPT !.name.ext = fcall.download.name.ext]
                            ELSE repo_path
             r == ResolveChecked(repo_target, dirs)
         IN  /\ dirs' = r.dirs
             /\ disk' = IF r.safe.ok THEN disk ELSE AfterFailedCopy(disk, fcall.download)
             /\ IF ~r.safe.ok
                THEN RaiseFrom("copy_to_repo", "PATH_TRAVERSAL_BLOCKED",
                               [NoCall EXCEPT !.output_path = repo_target])
                ELSE /\ fpc' = "copying"
                     /\ fcall' = [NoCall EXCEPT !.op = "copy", !.src = fcall.download,
                                                 !.output_path = repo_target,
                                                 !.download = fcall.download,
                                                 !.path = CopyTarget(r.safe.path, Exists)]
                     /\ UNCHANGED <<fret, gres>>
    /\ UNCHANGED <<gens, gsnap, fin>>
    /\ UNCHANGED <<waitVars, gateVars, fn>>

\* Lines 159-160: shutil.copy2 has run; the generation returns its result.
CopyFinished ==
    /\ fpc = "copying"
    /\ disk' = [p \in Exists \cup {fcall.path} |->
                  IF p = fcall.path THEN disk[fcall.src] ELSE disk[p]]
    /\ fret' = Returned("copy_to_repo", fcall.path, disk[fcall.src].size, fcall)
    /\ fpc' = "idle"
    /\ fcall' = NoCall
    /\ gres' = "copied"
    /\ UNCHANGED <<dirs, gens, snap, gsnap, fin>>
    /\ UNCHANGED <<waitVars, gateVars, fn>>

NextFiles ==
    \/ ResolveOutputPath
    \/ DownloadDirect
    \/ DlConnectError
    \/ DlResponse
    \/ DlOpen
    \/ DlChunk
    \/ DlBodyError
    \/ DlWake
    \/ DlReturn
    \/ NoCopy
    \/ CopyToRepo
    \/ CopyFinished

\* One generation, or one download on its own.
SpecFiles == InitFiles /\ [][NextFiles]_vars

\* A call that can take a step does take one.
FairFiles == SpecFiles /\ WF_vars(NextFiles)

\* The paths of a repeated request: below the working directory, with and without an
\* extension.
RepeatedPaths == { RawPath(FALSE, <<"out">>, name) : name \in Names }
RepoPaths == { RawPath(FALSE, <<"repo">>, name) : name \in Names }

\* MaxGens generations requested to the same path one after the other, each answered
\* with the asset, on a disk that holds nothing yet.
InitRepeat ==
    /\ WaitAtRest
    /\ GateAtRest
    /\ fn = NoFn
    /\ \E raw \in RepeatedPaths, repo \in RepoPaths :
         fin = [paths |-> {raw}, repos |-> {repo}, gens |-> MaxGens,
                codes |-> {200}, faults |-> FALSE]
    /\ disk = <<>>
    /\ dirs = InitialDirs
    /\ fpc = "idle"
    /\ fcall = NoCall
    /\ fret = NoResult
    /\ gens = 0
    /\ gres = "none"
    /\ snap = <<>>
    /\ gsnap = <<>>

\* The calls that a repeated request makes: the generation's own, never a failing one.
NextRepeat ==
    \/ ResolveOutputPath
    \/ DlResponse
    \/ DlOpen
    \/ DlChunk
    \/ DlReturn
    \/ NoCopy
    \/ CopyToRepo
    \/ CopyFinished

SpecRepeat == InitRepeat /\ [][NextRepeat]_vars

(***************************************************************************)
(* generate_compare: one orchestration per model identifier.               *)
(***************************************************************************)
\* Model identifiers, as strings of characters; the last two have the same slug.
ModelIds == { <<"a", "/", "b">>, <<"a", "/", "c">>, <<"A", "/", "c">> }

\* str.lower().
Lower(ch) == IF ch = "A" THEN "a" ELSE ch

\* The characters the pattern [^a-zA-Z0-9._-]+ leaves alone.
SlugChar(ch) == ch \in {"a", "b", "c", "A", ".", "_", "-"}

RECURSIVE SubRuns(_)
\* re.sub(r"[^a-zA-Z0-9._-]+", "-", s): each run of other characters becomes one "-".
SubRuns(s) ==
    IF s = <<>> THEN <<>>
    ELSE IF SlugChar(Head(s)) THEN <<Head(s)>> \o SubRuns(Tail(s))
    ELSE IF Len(s) > 1 /\ ~SlugChar(s[2]) THEN SubRuns(Tail(s))
    ELSE <<"-">> \o SubRuns(Tail(s))

RECURSIVE Strip(_)
\* str.strip("-").
Strip(s) ==
    IF s = <<>> THEN <<>>
    ELSE IF Head(s) = "-" THEN Strip(Tail(s))
    ELSE IF s[Len(s)] = "-" THEN Strip(SubSeq(s, 1, Len(s) - 1))
    ELSE s

\* Lines 59-60.
_slugify_model_id(model_id) ==
    LET t == Strip(SubRuns(model_id)) IN [k \in 1..Len(t) |-> Lower(t[k])]

\* Faulty variant of CompareFailedEntry: the failure is tagged with the item's slug.
CompareFailedBySlug(idx, e) ==
    [model_id |-> _slugify_model_id(model_ids[idx + 1]), error |-> StrOf(e)]

\* Line 505; idx counts from 0 as zip pairs model_ids with results.
CompareFailedEntry(idx, e) == [model_id |-> model_ids[idx + 1], error |-> StrOf(e)]

\* The GenerateResult of the item at idx (from 0): written under <output_dir>/<slug>.
CompareFileEntry(idx) ==
    [output_path |-> _slugify_model_id(model_ids[idx + 1]), model_id |-> model_ids[idx + 1]]

RECURSIVE CompareFiles(_), CompareFailed(_)
\* Lines 501-507, over the first n pairs of zip(model_ids, results).
CompareFiles(n) ==
    IF n = 0 THEN <<>>
    ELSE IF pc[n] = "failed" THEN CompareFiles(n - 1)
    ELSE Append(CompareFiles(n - 1), CompareFileEntry(n - 1))

CompareFailed(n) ==
    IF n = 0 THEN <<>>
    ELSE IF pc[n] = "failed"
         THEN Append(CompareFailed(n - 1), CompareFailedEntry(n - 1, err[n]))
    ELSE CompareFailed(n - 1)

\* Lines 485-500: one task per model identifier, each run up to its first await.
GenerateCompare ==
    /\ Len(model_ids) = count
    /\ GenerateBatch

\* Lines 500-509: gather returns once every task has settled.
CollectCompare ==
    /\ bpc = "gather"
    /\ \A i \in 1..count : Settled(i)
    /\ bpc' = "returned"
    /\ files' = CompareFiles(count)
    /\ failed' = CompareFailed(count)
    /\ UNCHANGED <<orch, model_ids, count, repo_dir, pc, err, log, client, SEMAPHORE, oGated>>
    /\ UNCHANGED <<waitVars, fsVars, fn>>

\* CompareInput, line 59 of models.py: at least two model identifiers.
InitCompare ==
    /\ FilesAtRest
    /\ WaitAtRest
    /\ orch = NoOrch
    /\ \E n \in 2..MaxModels : model_ids \in [1..n -> ModelIds]
    /\ count = Len(model_ids)
    /\ repo_dir \in BOOLEAN
    /\ bpc = "new"
    /\ pc = [i \in 1..count |-> "new"]
    /\ err = [i \in 1..count |-> NoError]
    /\ log = [i \in 1..count |-> <<>>]
    /\ client = [i \in 1..count |-> "none"]
    /\ SEMAPHORE = NewSemaphore(count)
    /\ oGated = 0
    /\ files = <<>>
    /\ failed = <<>>

NextCompare ==
    \/ GenerateCompare
    \/ SubmitDoneAny
    \/ WaitDoneAny
    \/ ResultDoneAny
    \/ DownloadDoneAny
    \/ CopyDoneAny
    \/ CollectCompare

\* A comparison of up to MaxModels models with no other tool call running.
SpecCompare == InitCompare /\ [][NextCompare]_vars

\* Nothing was received or sent yet, and all of it will be recorded.
NewOrch(n) ==
    [on |-> TRUE, issued |-> 0,
     got |-> [i \in 1..n |-> FALSE],
     submitted |-> [i \in 1..n |-> [request_id |-> ABSENT, requestId |-> ABSENT]],
     request_id |-> [i \in 1..n |-> ABSENT],
     result |-> [i \in 1..n |-> JsonNum],
     calls |-> [i \in 1..n |-> <<>>],
     escapes |-> <<>>]

\* The models compared, each a different one.
DistinctModelIds == << <<"a", "/", "b">>, <<"a", "/", "c">>, <<"A", "/", "c">>, <<"b", "/", "c">> >>

InitCalls ==
    /\ FilesAtRest
    /\ WaitAtRest
    /\ \E n \in 2..MaxModels : model_ids = SubSeq(DistinctModelIds, 1, n)
    /\ count = Len(model_ids)
    /\ orch = NewOrch(count)
    /\ repo_dir \in BOOLEAN
    /\ bpc = "new"
    /\ pc = [i \in 1..count |-> "new"]
    /\ err = [i \in 1..count |-> NoError]
    /\ log = [i \in 1..count |-> <<>>]
    /\ client = [i \in 1..count |-> "none"]
    /\ SEMAPHORE = NewSemaphore(count)
    /\ oGated = 0
    /\ files = <<>>
    /\ failed = <<>>

\* The same comparison with what each orchestration receives and sends recorded.
SpecCalls == InitCalls /\ [][NextCompare]_vars

(***************************************************************************)
(* Claims about wait_for_completion (SpecWait, FairWait).                  *)
(***************************************************************************)
SSE == GenvoyToolError("SSE_UNAVAILABLE")

C2_FallbackOnlyOnSseUnavailable ==
    /\ streamResult = Raise(SSE) =>
         /\ wpc \in {"poll", "sleep", "done"}
         /\ (polls = 0 /\ timeout_seconds > 0) => (wpc = "poll" /\ outcome = Pending)
    /\ (streamResult.kind = "raise" /\ streamResult # Raise(SSE)) =>
         /\ wpc = "done"
         /\ outcome = streamResult
         /\ polls = 0

\* The stream was closed after a non-terminal frame, and the call went on to poll.
C2_Witness ==
    /\ streamResult = Raise(SSE)
    /\ polls >= 1
    /\ timeout_seconds > 0
    /\ wpc = "done"

\* C3: a FAILED payload returned by the stream ends the call with JOB_FAILED carrying
\* that payload and no poll is made; a FAILED status returned by a poll (and accepted by
\* the callback) ends it with JOB_FAILED carrying that status; JOB_FAILED is raised for
\* nothing else.
C3_FailedRaisesJobFailed ==
    /\ (streamResult.kind = "return" /\ _status_value(streamResult.payload) = "FAILED") =>
         /\ wpc = "done"
         /\ outcome = Raise(JobFailed(streamResult.payload))
         /\ polls = 0
    /\ (polls > 0 /\ _status_value(status) = "FAILED") =>
         /\ wpc = "done"
         /\ outcome = Raise(JobFailed(status)) \/ (outcome.kind = "raise" /\ outcome.err \in CallbackErrors)
    /\ (outcome.kind = "raise" /\ outcome.err.code = "JOB_FAILED") =>
         /\ _status_value(outcome.err.payload) = "FAILED"
         /\ outcome.err.payload = (IF polls = 0 THEN streamResult.payload ELSE status)

\* The stream delivered a FAILED frame and the call raised JOB_FAILED without polling.
C3_Witness ==
    /\ wpc = "done"
    /\ streamResult.kind = "return"
    /\ _status_value(streamResult.payload) = "FAILED"
    /\ outcome.err.code = "JOB_FAILED"

\* The same from a poll.
C3_WitnessPoll ==
    /\ wpc = "done"
    /\ polls > 0
    /\ outcome = Raise(JobFailed(status))

\* C4: every call of wait_for_completion eventually ends (with JOB_TIMEOUT when the
\* remote never delivers a terminal state), whatever the stream keeps delivering.
C4_AlwaysTerminates == <>(wpc = "done")

\* The stream has delivered a non-terminal frame and is still open, its read timeout
\* starting afresh.
C4_Witness ==
    /\ wpc = "stream_read"
    /\ timeout_seconds > 0
    /\ idle = 0
    /\ last_payload.kind = "dict"
    /\ ~IsTerminal(_status_value(last_payload))

\* The part of C4 that the polling loop does guarantee: once polling, the call ends.
C4_PollingTerminates == (wpc = "poll") ~> (wpc = "done")

(***************************************************************************)
(* Claims about the admission gate (SpecGate, FairGate).                   *)
(***************************************************************************)
RECURSIVE SlotsOut(_, _)
\* The slots the gate has given out and not got back, over the ids 0..n.
SlotsOut(sem, n) == IF n < 0 THEN 0 ELSE sem.owners[n] + SlotsOut(sem, n - 1)

WokenOthers ==
    Cardinality({ k \in 1..Len(SEMAPHORE.waiters) :
                    SEMAPHORE.waiters[k] = [id |-> 0, done |-> TRUE] })

Sleeping(i) ==
    \E k \in 1..Len(SEMAPHORE.waiters) : SEMAPHORE.waiters[k] = [id |-> i, done |-> FALSE]

\* C5: at every moment at most MAX_CONCURRENT_JOBS orchestrations (batch items and the
\* orchestrations of other tool calls together) hold a slot, each holds at most one, and
\* an item whose submit, wait or result call is in flight holds a slot.
C5_AtMostMaxHolders ==
    /\ SlotsOut(SEMAPHORE, count) <= MAX_CONCURRENT_JOBS
    /\ SEMAPHORE.value = MAX_CONCURRENT_JOBS - SlotsOut(SEMAPHORE, count)
    /\ SEMAPHORE.owners[0] = oGated + WokenOthers
    /\ \A i \in 1..count :
         /\ SEMAPHORE.owners[i] \in {0, 1}
         /\ pc[i] \in GatedSteps => SEMAPHORE.owners[i] = 1

\* All slots are taken, an item among the holders has its wait call in flight, and
\* another orchestration is queued.
C5_Witness ==
    /\ SlotsOut(SEMAPHORE, count) = MAX_CONCURRENT_JOBS
    /\ pc[1] = "wait"
    /\ Len(SEMAPHORE.waiters) > 0

\* C6: every item releases the slot it was given exactly once on every exit path: an
\* item that has left the gated section (settled, or downloading or copying) has made
\* one release and owns no slot, no item ever makes a second release, and when every
\* orchestration has left the gate all MAX_CONCURRENT_JOBS slots are free.
C6_ReleasedExactlyOnce ==
    /\ \A i \in 1..count :
         /\ SEMAPHORE.releases[i] <= 1
         /\ SEMAPHORE.owners[i] >= 0
         /\ pc[i] \in {"download", "copy", "done", "failed"} =>
              (SEMAPHORE.releases[i] = 1 /\ SEMAPHORE.owners[i] = 0)
         /\ pc[i] \in {"new", "queued"} \cup GatedSteps => SEMAPHORE.releases[i] = 0
    /\ ((\A i \in 1..count : Settled(i)) /\ oGated = 0 /\ SEMAPHORE.waiters = <<>>) =>
         SEMAPHORE.value = MAX_CONCURRENT_JOBS

\* The item had to queue, was admitted, timed out, and every slot is free again.
C6_Witness ==
    /\ pc[1] = "failed"
    /\ err[1] = GenvoyToolError("JOB_TIMEOUT")
    /\ SEMAPHORE.value = MAX_CONCURRENT_JOBS
    /\ oGated = 0

C8_QueuedItemsAreAdmitted ==
    /\ [](\A i \in 1..count :
            /\ SEMAPHORE.owners[i] <= 1
            /\ Sleeping(i) => (SEMAPHORE.owners[i] = 0 /\ pc[i] = "queued" /\ err[i] = NoError)
            /\ pc[i] = "failed" => SEMAPHORE.releases[i] = 1)
    /\ \A i \in 1..MaxCount :
         (i \in 1..count /\ pc[i] = "queued") ~> (i \in 1..count /\ SEMAPHORE.owners[i] = 1)
    /\ \A i \in 1..MaxCount :
         (i \in 1..count /\ pc[i] = "queued") ~> (i \in 1..count /\ Settled(i))

\* The item waits in the queue behind another orchestration while all slots are taken.
C8_Witness ==
    /\ Len(SEMAPHORE.waiters) >= 2
    /\ Sleeping(1)
    /\ SEMAPHORE.waiters[1].id = 0

(***************************************************************************)
(* Claims about the pipeline and the batch result (SpecBatch).             *)
(***************************************************************************)
\* The events of an orchestration in which every step succeeds.
FullLog(repo) ==
    << <<"submit", "start">>, <<"submit", "ok">>, <<"wait", "start">>, <<"wait", "ok">>,
       <<"result", "start">>, <<"result", "ok">>, <<"download", "start">>,
       <<"download", "ok">> >>
    \o (IF repo THEN << <<"copy", "start">>, <<"copy", "ok">> >> ELSE <<>>)

\* l follows the order of full: it is a prefix of full, or such a prefix in which the
\* step started last has failed.
InOrder(l, full) ==
    /\ Len(l) <= Len(full)
    /\ \A k \in 1..Len(l) :
         \/ l[k] = full[k]
         \/ k = Len(l) /\ full[k][2] = "ok" /\ l[k] = <<full[k][1], "failed">>

\* C9: the steps of an item are started in the order submit, wait, result, download,
\* copy, each after the one before it has succeeded, and none after a step has failed;
\* an item is in a step exactly when that step was started last and has not ended.
C9_StepsInOrder ==
    \A i \in 1..count :
       /\ InOrder(log[i], FullLog(repo_dir))
       /\ pc[i] \in Steps <=> (log[i] # <<>> /\ log[i][Len(log[i])] = <<pc[i], "start">>)
       /\ pc[i] = "done" <=> log[i] = FullLog(repo_dir)
       /\ (log[i] # <<>> /\ log[i][Len(log[i])][2] = "failed") => pc[i] = "failed"

\* One item went through all five steps and another failed in its wait step.
C9_Witness ==
    /\ count >= 2
    /\ repo_dir
    /\ pc[1] = "done"
    /\ Len(log[1]) = 10
    /\ log[2] = << <<"submit", "start">>, <<"submit", "ok">>, <<"wait", "start">>,
                   <<"wait", "failed">> >>

\* C10: generate_batch returns only when all count items have settled; then
\* len(files) + len(failed) = count, failed holds one entry per failed item, in request
\* order, with the item's 1-based position and the string form of its error, and files
\* holds the successful items in request order.
C10_BatchPartialResult ==
    /\ bpc # "returned" => (files = <<>> /\ failed = <<>>)
    /\ bpc = "returned" =>
         /\ \A i \in 1..count : Settled(i)
         /\ Len(files) + Len(failed) = count
         /\ { failed[k].index : k \in 1..Len(failed) } = { i \in 1..count : pc[i] = "failed" }
         /\ \A k \in 1..Len(failed) :
              /\ failed[k].error = StrOf(err[failed[k].index])
              /\ \A j \in 1..(k - 1) : failed[j].index < failed[k].index
         /\ { files[k].output_path : k \in 1..Len(files) } = { i \in 1..count : pc[i] = "done" }
         /\ \A k \in 1..Len(files) :
              \A j \in 1..(k - 1) : files[j].output_path < files[k].output_path

\* A batch of three in which the second item alone failed.
C10_Witness ==
    /\ bpc = "returned"
    /\ count = 3
    /\ Len(files) = 2
    /\ Len(failed) = 1
    /\ failed[1].index = 2
    /\ failed[1].error = <<"JOB_FAILED", ": ", "message">>

(***************************************************************************)
(* Claims about generate_compare (SpecCompare).                            *)
(***************************************************************************)
\* C11: generate_compare returns only when every item has settled; then
\* len(files) + len(failed) = len(model_ids), failed holds, in request order, one entry
\* per failed item with that item's model identifier and the string form of its error,
\* and files holds, in request order, one entry per item that did not fail, with its
\* model identifier.
C11_ComparePartialResult ==
    /\ bpc # "returned" => (files = <<>> /\ failed = <<>>)
    /\ bpc = "returned" =>
         LET bad == { i \in 1..count : pc[i] = "failed" }
             good == { i \in 1..count : pc[i] = "done" }
             \* the position of the k-th item of S, counted in request order
             nth(S, k) == CHOOSE i \in S : Cardinality({ j \in S : j < i }) = k - 1
         IN  /\ \A i \in 1..count : Settled(i)
             /\ Len(files) + Len(failed) = Len(model_ids)
             /\ Len(failed) = Cardinality(bad)
             /\ Len(files) = Cardinality(good)
             /\ \A k \in 1..Len(failed) :
                  /\ failed[k].model_id = model_ids[nth(bad, k)]
                  /\ failed[k].model_id \in ModelIds
                  /\ failed[k].error = StrOf(err[nth(bad, k)])
             /\ \A k \in 1..Len(files) : files[k].model_id = model_ids[nth(good, k)]

\* Of two models the second alone failed, in its wait step.
C11_Witness ==
    /\ bpc = "returned"
    /\ model_ids = << <<"a", "/", "b">>, <<"a", "/", "c">> >>
    /\ Len(files) = 1
    /\ files[1].model_id = <<"a", "/", "b">>
    /\ failed = << [model_id |-> <<"a", "/", "c">>,
                    error |-> <<"JOB_FAILED", ": ", "message">>] >>

(***************************************************************************)
(* Claims about the filesystem calls (SpecFiles, FairFiles, SpecRepeat)    *)
(***************************************************************************)
\* The directory lies in the working-directory subtree.
DirWithin(d) == Len(d) >= Len(Root) /\ SubSeq(d, 1, Len(Root)) = Root

\* The directories made since the first call.
NewDirs == dirs \ InitialDirs

Blocked(op) == fret.op = op /\ fret.kind = "raise" /\ fret.code = "PATH_TRAVERSAL_BLOCKED"

\* C12: no call ever creates a file or a directory outside the working-directory
\* subtree, also when the requested path is refused with PATH_TRAVERSAL_BLOCKED.
C12_NothingCreatedOutsideRoot ==
    /\ \A d \in NewDirs : DirWithin(d)
    /\ \A p \in Exists : _is_within(p, Root)

\* C12, the part the code keeps: no file is ever written outside the subtree.
C12_NoFileOutsideRoot == \A p \in Exists : _is_within(p, Root)

\* resolve_output_path has refused a path and a directory outside the subtree has been
\* made all the same.
C12_Witness ==
    /\ Blocked("resolve_output_path")
    /\ \E d \in NewDirs : ~DirWithin(d)

\* The path a call was given resolves outside the working-directory subtree.
Outside(raw) == ~_is_within(Resolved(raw), Root)

Ended(op) == fret.op = op /\ fret.kind # "none"

\* C13 as stated: each of the three calls fails with PATH_TRAVERSAL_BLOCKED whenever
\* the path resolves outside the working root, and never for a path inside it.
C13_BlockedWheneverOutside ==
    \A op \in {"resolve_output_path", "copy_to_repo", "download_to_file"} :
        Ended(op) => (Blocked(op) <=> Outside(fret.arg))

\* C13, amended: resolve_output_path and copy_to_repo fail with PATH_TRAVERSAL_BLOCKED
\* exactly when the path resolves outside the working root.  download_to_file never
\* fails so for a path inside, never returns and never opens a file for a path
\* outside, but tests the path only once a 2xx response has arrived: before that it
\* fails with the error of the response or of the transport.
C13_BlockedOutsideOnceTested ==
    /\ \A op \in {"resolve_output_path", "copy_to_repo"} :
          Ended(op) => (Blocked(op) <=> Outside(fret.arg))
    /\ Ended("download_to_file") =>
          /\ Blocked("download_to_file") => Outside(fret.arg)
          /\ Outside(fret.arg) =>
                /\ fret.kind = "raise"
                /\ fret.opened = {}
                /\ fret.code \in {"PATH_TRAVERSAL_BLOCKED", "CDN_EXPIRED", "DOWNLOAD_FAILED"}
    /\ fcall.op = "download" /\ fpc \in {"open", "body"} => ~Outside(fcall.output_path)

\* download_to_file has refused a relative path that leaves the working root by
\* more than one parent-directory component.
C13_Witness ==
    /\ Blocked("download_to_file")
    /\ ~fret.arg.abs
    /\ Len(fret.arg.parts) >= 3

\* The files that the current generation has added.
NewFiles == Exists \ DOMAIN gsnap

\* C14: a generation that succeeded has added exactly one file (and exactly one copy
\* when it copied), also when the download needed retries.
C14_OneFilePerGeneration ==
    /\ gres = "running" /\ fpc = "downloaded" => Cardinality(NewFiles) = 1
    /\ gres = "ok" => Cardinality(NewFiles) = 1
    /\ gres = "copied" => Cardinality(NewFiles) = 2

\* On an empty disk a generation succeeded on its second request, returned hero_1.png
\* and left the first attempt's hero.png beside it.
C14_Witness ==
    /\ gres = "ok"
    /\ gsnap = <<>>
    /\ fret.requests = 2
    /\ fret.path.name = FileName("hero", <<1>>, ".png")
    /\ Cardinality(NewFiles) = 2

\* The n-th name that unique_path tries for a path.
Nth(path, n) == IF n = 0 THEN path ELSE Candidate(path, n)

\* The paths unique_path may be asked about: the requested ones, with and without the
\* extension, and those of the files in place.
Probes ==
    Exists \cup { Resolved(raw) : raw \in fin.paths \cup fin.repos }
           \cup { WithSuffix(Resolved(raw), ".png") : raw \in fin.paths \cup fin.repos }

\* unique_path returns the path itself when it is free, and otherwise the candidate
\* of the smallest k >= 1 that is free, stem and extension kept.
SmallestFree(path) ==
    LET u == unique_path(path, Exists)
    IN  /\ u \notin Exists
        /\ path \notin Exists => u = path
        /\ path \in Exists =>
              \E k \in 1..(Cardinality(Exists) + 1) :
                  /\ u = Candidate(path, k)
                  /\ \A j \in 0..(k - 1) : Nth(path, j) \in Exists
        /\ u.dir = path.dir
        /\ u.name.base = path.name.base
        /\ u.name.ext = path.name.ext

\* The files in the output directory that generation g wrote.
WrittenBy(g) == { p \in Exists : p.dir = OutDir /\ disk[p].from = g }

Hero == [dir |-> OutDir, name |-> FileName("hero", <<>>, ".png")]

\* C15: unique_path returns the requested path when it is free and otherwise stem_k
\* with the extension for the smallest free k >= 1; generations requested to the same
\* path one after the other write hero.png, hero_1.png, hero_2.png, ..., each its
\* own file, and no file in place is overwritten.
C15_SmallestFreeSuffix ==
    /\ \A path \in Probes : SmallestFree(path)
    /\ \A g \in 1..gens :
          /\ Cardinality(WrittenBy(g)) <= 1
          /\ g < gens => Cardinality(WrittenBy(g)) = 1
          /\ fin.paths = {RawPath(FALSE, <<"out">>, Hero.name)} =>
                /\ WrittenBy(g) \subseteq {Nth(Hero, g - 1)}
                /\ g < gens => WrittenBy(g) = {Nth(Hero, g - 1)}
    /\ \A p \in DOMAIN gsnap : p \in Exists /\ disk[p] = gsnap[p]

\* Three generations to out/hero.png have written hero.png, hero_1.png and hero_2.png.
C15_Witness ==
    /\ gens = 3
    /\ gres \in {"ok", "copied"}
    /\ fin.paths = {RawPath(FALSE, <<"out">>, Hero.name)}
    /\ \A n \in 0..2 : Nth(Hero, n) \in Exists /\ disk[Nth(Hero, n)].from = n + 1

\* C16: the path copy_to_repo returns did not exist before the call, and every file
\* that existed before the call is still there with the content it had; the copy
\* holds what the downloaded file holds.
C16_CopyNeverOverwrites ==
    /\ fpc = "copying" => fcall.path \notin Exists
    /\ Ended("copy_to_repo") /\ fret.kind = "return" =>
          /\ fret.path \notin DOMAIN snap
          /\ fret.path \in Exists
          /\ disk[fret.path].size = fret.size
          /\ \A p \in DOMAIN snap : p \in Exists /\ disk[p] = snap[p]

\* The second copy to the same destination found the first in place and was written
\* beside it.
C16_Witness ==
    /\ Ended("copy_to_repo")
    /\ fret.kind = "return"
    /\ fret.path.name.idx = <<1>>
    /\ [fret.path EXCEPT !.name.idx = <<>>] \in DOMAIN snap

\* C17: when download_to_file has returned, the path of its result names a file on
\* disk inside the working root, and file_size_bytes is the number of bytes in it.
C17_ResultNamesWrittenFile ==
    Ended("download_to_file") /\ fret.kind = "return" =>
        /\ fret.path \in Exists
        /\ _is_within(fret.path, Root)
        /\ disk[fret.path].size = fret.size

\* A download returned on its second request, after the first had written to the
\* same file, with all the bytes of the second body.
C17_Witness ==
    /\ Ended("download_to_file")
    /\ fret.kind = "return"
    /\ fret.requests = 2
    /\ fret.opened = {fret.path}
    /\ fret.size = MaxChunks

\* C18 as stated: when a response has status 403 or 404, download_to_file raises
\* CDN_EXPIRED, exactly one request has been made, no retry delay was taken and no
\* file was created or modified.
C18_CdnExpiredAfterOneRequest ==
    Ended("download_to_file") /\ fret.status_code \in {403, 404} =>
        /\ fret.kind = "raise" /\ fret.code = "CDN_EXPIRED"
        /\ fret.requests = 1
        /\ fret.delays = <<>>
        /\ disk = snap

\* C18, amended: a response with status 403 or 404 makes download_to_file raise
\* CDN_EXPIRED at once: no delay and no request follows it, and when it answers the
\* call's first request, one request has been made, no delay was taken and no file
\* was created or modified.  When it answers a retry, the requests and delays of
\* the failed attempts precede it.
C18_CdnExpiredAtOnce ==
    /\ fcall.op = "download" => fcall.status_code \notin {403, 404}
    /\ Ended("download_to_file") =>
          /\ fret.status_code \in {403, 404} <=> (fret.kind = "raise" /\ fret.code = "CDN_EXPIRED")
          /\ fret.status_code \in {403, 404} =>
                /\ fpc = "idle"
                /\ Len(fret.delays) = fret.requests - 1
                /\ fret.requests = 1 =>
                      /\ fret.delays = <<>>
                      /\ fret.opened = {}
                      /\ disk = snap

\* The first request of a download was answered 404 and the call has raised
\* CDN_EXPIRED, on a disk that held files before.
C18_Witness ==
    /\ Ended("download_to_file")
    /\ fret.code = "CDN_EXPIRED"
    /\ fret.status_code = 404
    /\ fret.requests = 1
    /\ Exists # {}

\* The number of requests a call has made by the time it is at a position.
RequestsAt(c, at) == IF at = "request" THEN c.attempt ELSE c.attempt + 1

\* The retry schedule of download_to_file, while the call runs and when it has ended.
RetrySchedule ==
    /\ fcall.op = "download" =>
          /\ fcall.attempt <= Len(retries)
          /\ fcall.requests = RequestsAt(fcall, fpc)
          /\ fcall.requests <= Len(retries) + 1
          /\ fcall.delays = SubSeq(retries, 1, Len(fcall.delays))
          /\ Len(fcall.delays) = IF fpc = "sleep" THEN fcall.attempt + 1 ELSE fcall.attempt
          /\ fcall.status_code \in {0, 200}
    /\ Ended("download_to_file") =>
          /\ fret.requests \in 1..(Len(retries) + 1)
          /\ fret.delays = SubSeq(retries, 1, fret.requests - 1)
          /\ fret.kind = "return" => fret.status_code = 200
          /\ fret.status_code >= 400 => fret.kind = "raise"
          /\ fret.status_code >= 400 /\ fret.status_code \notin {403, 404} =>
                fret.code = "DOWNLOAD_FAILED"
          /\ fret.kind = "raise" /\ fret.status_code < 400 =>
                \/ fret.code = "DOWNLOAD_FAILED" /\ fret.requests = Len(retries) + 1
                \/ fret.code = "PATH_TRAVERSAL_BLOCKED" /\ fret.status_code = 200

TerminalFrame(payload) == IsTerminal(_status_value(payload))

\* C20: stream_job_status calls the callback once for each frame it decodes, in the
\* order of arrival; it returns the first frame whose status is COMPLETED or FAILED
\* right after the callback for that frame, and no frame after it gets a callback.
C20_CallbackPerFrameInOrder ==
    strace.on =>
        /\ strace.callbacks = IF has_on_status THEN strace.frames ELSE <<>>
        /\ \A i \in 1..(Len(strace.frames) - 1) : ~TerminalFrame(strace.frames[i])
        /\ streamResult.kind = "return" =>
              /\ strace.frames # <<>>
              /\ streamResult.payload = strace.frames[Len(strace.frames)]
              /\ TerminalFrame(streamResult.payload)
        /\ strace.frames # <<>> /\ TerminalFrame(strace.frames[Len(strace.frames)]) =>
              /\ wpc # "stream_read"
              /\ streamResult.kind \in {"return", "raise"}

\* The callback was called for a frame in progress and then for a terminal frame,
\* which the call returned.
C20_Witness ==
    /\ strace.on
    /\ has_on_status
    /\ Len(strace.callbacks) = 2
    /\ ~TerminalFrame(strace.callbacks[1])
    /\ streamResult = Return(strace.callbacks[2])

\* stream_job_status is running.
InStream(at) == at \in {"stream_open", "stream_read"}

\* C21: whenever stream_job_status ends in a step that decodes no frame (the endpoint
\* answers 404, 405, 501 or another error status, the transport fails while opening
\* or reading, or the server closes the stream), it raises SSE_UNAVAILABLE and
\* returns no payload, whether or not frames were decoded before.
C21_UnavailableWithoutTerminalFrame ==
    [][InStream(wpc) /\ ~InStream(wpc') /\ strace'.frames = strace.frames
          => streamResult' = Raise(GenvoyToolError("SSE_UNAVAILABLE"))]_vars

\* The stream ended with SSE_UNAVAILABLE after frames had been decoded, none of them
\* terminal.
C21_Witness ==
    /\ strace.on
    /\ Len(strace.frames) = MaxFrames
    /\ \A i \in 1..Len(strace.frames) : ~TerminalFrame(strace.frames[i])
    /\ streamResult = Raise(GenvoyToolError("SSE_UNAVAILABLE"))

(***************************************************************************)
(* FalClient._request: one HTTP answer turned into a result or an error.   *)
(* A URL is the sequence of its path segments after the scheme, the host   *)
(* first; the query is passed apart (params=) and is no part of it.        *)
(***************************************************************************)
BASE_API == <<"api.fal.ai", "v1">>
QUEUE_API == <<"queue.fal.run">>

\* Model ids MODEL_ID_PATTERN accepts, as their segments between slashes.
RequestModelIds == { <<"fal-ai", "flux">>, <<"acme", "models", "usage">> }

\* The calls of the client that a generation makes, and the usage history call.
QueueOps == {"submit_job", "get_job_status", "get_job_result", "cancel_job"}
LookupOps == {"search_models"}
RequestOps == QueueOps \cup LookupOps \cup {"list_recent"}

RequestUrl(op, model_id) ==
    CASE op = "submit_job" -> QUEUE_API \o model_id
      [] op = "get_job_status" -> QUEUE_API \o model_id \o <<"requests", "r1", "status">>
      [] op = "get_job_result" -> QUEUE_API \o model_id \o <<"requests", "r1">>
      [] op = "cancel_job" -> QUEUE_API \o model_id \o <<"requests", "r1", "cancel">>
      [] op = "search_models" -> BASE_API \o <<"models">>
      [] op = "list_recent" -> BASE_API \o <<"models", "usage">>

\* "/models/usage" in url: the two segments follow each other after some slash.
InUrl(part, url) ==
    \E i \in 2..(Len(url) - Len(part) + 1) : SubSeq(url, i, i + Len(part) - 1) = part

\* Bodies of an answer: nothing, text that is no JSON, one JSON object.
NoContent == ""
NonJsonContent == "<html>"
JsonContent == "{\"request_id\": \"r1\"}"
Contents == {NoContent, NonJsonContent, JsonContent}

\* response.json(): the parsed object, or ValueError.
Json(content) ==
    IF content = JsonContent
    THEN [ok |-> TRUE, value |-> "{request_id: r1}"]
    ELSE [ok |-> FALSE, value |-> "ValueError"]

RequestStatusCodes == {200, 302, 403, 404, 429, 500, 504}

Responses ==
    [status_code : RequestStatusCodes,
     retry_after : {ABSENT, "7"},
     timeout_type : {ABSENT, "user", "server"},
     content : Contents]

\* No answer at all: client.request raised httpx.HTTPError.
NoResponse ==
    [status_code |-> TransportError, retry_after |-> ABSENT, timeout_type |-> ABSENT,
     content |-> NoContent]

RequestRaised(code, detail) == [kind |-> "raise", code |-> code, value |-> detail]
RequestReturned(value) == [kind |-> "return", code |-> "", value |-> value]

\* response.raise_for_status(): raises for every status that is not 2xx.
raise_for_status(status_code) == ~(200 <= status_code /\ status_code <= 299)

_request(url, response) ==
    IF response.status_code = TransportError
    THEN RequestRaised("NETWORK_ERROR", "")
    ELSE IF response.status_code = 429
    THEN RequestRaised("RATE_LIMITED",
                       IF response.retry_after = ABSENT THEN "unknown"
                       ELSE response.retry_after)
    ELSE IF response.status_code = 404
    THEN RequestRaised("MODEL_NOT_FOUND", "")
    ELSE IF response.status_code = 403 /\ InUrl(<<"models", "usage">>, url)
    THEN RequestRaised("ADMIN_KEY_REQUIRED", "")
    ELSE IF response.status_code = 504 /\ response.timeout_type = "user"
    THEN RequestRaised("QUEUE_START_TIMEOUT", "")
    ELSE IF raise_for_status(response.status_code)
    THEN RequestRaised("FAL_API_ERROR", "")
    ELSE IF response.content = NoContent
    THEN RequestReturned("{}")
    ELSE IF Json(response.content).ok
    THEN RequestReturned(Json(response.content).value)
    ELSE RequestRaised("INVALID_RESPONSE", "")

(***************************************************************************)
(* The functions without state, each called on inputs of its own.          *)
(***************************************************************************)
\* A call about to be made, and the call once it has returned or raised.
Call(name, arg) == [name |-> name, done |-> FALSE, arg |-> arg]
Called(ret) == [name |-> fn.name, done |-> TRUE, arg |-> fn.arg, ret |-> ret]
Calling(name) == fn.name = name /\ ~fn.done
Done(name) == fn.name = name /\ fn.done

RequestCalls ==
    { Call("_request", [op |-> op, model_id |-> model_id, response |-> response]) :
        op \in RequestOps, model_id \in RequestModelIds,
        response \in Responses \cup {NoResponse} }

\* The same piece of text written in capitals.
Capitals(piece) ==
    CASE piece = "image" -> "IMAGE"
      [] piece = "png" -> "PNG"
      [] piece = "video" -> "VIDEO"
      [] piece = "mp4" -> "MP4"
      [] piece = "text" -> "TEXT"
      [] piece = "html" -> "HTML"
      [] piece = ".png" -> ".PNG"
      [] piece = ".mp4" -> ".MP4"
      [] piece = ".json" -> ".JSON"
      [] OTHER -> piece

\* Media types a Content-Type header can name, in small letters, and the parameters that
\* can follow.
MediaTypes ==
    { <<"image", "/", "png">>, <<"video", "/", "mp4">>, <<"audio", "/", "x-wav">>,
      <<"text", "/", "html">>, <<>> }
Parameters == { <<>>, <<";", "charset=utf-8">>, <<" ", ";", " ", "charset=utf-8">>, <<" ">> }
Suffixes == {".png", ".mp4", ".json", NoExt}

\* The header value as the server writes it.
Header(a) ==
    IF ~a.header THEN NoContentType
    ELSE (IF a.lead THEN <<" ">> ELSE <<>>)
         \o [k \in 1..Len(a.base) |-> IF a.caps THEN Capitals(a.base[k]) ELSE a.base[k]]
         \o a.parameters

DetectCalls ==
    { Call("detect_type_and_ext", a) :
        a \in [ext : Suffixes, ext_caps : BOOLEAN, header : BOOLEAN, base : MediaTypes,
               caps : BOOLEAN, lead : BOOLEAN, parameters : Parameters] }

Detect ==
    /\ Calling("detect_type_and_ext")
    /\ fn' = Called(detect_type_and_ext(
                       IF fn.arg.ext_caps THEN Capitals(fn.arg.ext) ELSE fn.arg.ext,
                       Header(fn.arg)))
    /\ UNCHANGED <<waitVars, gateVars, fsVars>>

\* Result payloads: an object of up to two items whose values are strings, numbers,
\* lists of up to MaxList strings or objects of up to two items.
MaxList == 2

InnerStrings == {JsonStr(UrlJson), JsonStr(UrlPng), JsonStr(FtpPng)}
InnerLists ==
    { JsonList(items) : items \in UNION { [1..n -> InnerStrings] : n \in 0..MaxList } }
InnerDicts ==
    {JsonDict(<<>>)}
    \cup { JsonDict(<<Item(k, v)>>) : k \in {"url", "z"}, v \in InnerStrings }
    \cup { JsonDict(<<Item(k[1], v), Item(k[2], w)>>) :
             k \in {<<"url", "z">>, <<"z", "url">>}, v \in InnerStrings, w \in InnerStrings }
JsonValues ==
    {JsonStr(UrlJson), JsonStr(UrlMp4), JsonStr(FtpPng), JsonNum} \cup InnerLists \cup InnerDicts
ResultPayloads ==
    JsonValues
    \cup { JsonDict(<<Item(k, v)>>) : k \in {"output", "data"}, v \in JsonValues }
    \cup { JsonDict(<<Item(k[1], v), Item(k[2], w)>>) :
             k \in {<<"output", "data">>, <<"data", "output">>},
             v \in JsonValues, w \in JsonValues }

ExtractCalls == { Call("_extract_first_media_url", payload) : payload \in ResultPayloads }

Extract ==
    /\ Calling("_extract_first_media_url")
    /\ fn' = Called(_extract_first_media_url(fn.arg))
    /\ UNCHANGED <<waitVars, gateVars, fsVars>>

(***************************************************************************)
(* Numbers.  A Python value is written [t, v]; a float is counted in       *)
(* hundredths, so that 0.25 is 25 and 100.0 is 10000.                      *)
(***************************************************************************)
Absent == [t |-> "absent", v |-> 0]               \* the key is not in the dict
PyNull == [t |-> "none", v |-> 0]                 \* null
PyInt(n) == [t |-> "int", v |-> n]
PyBigInt == [t |-> "bigint", v |-> 0]             \* an int no float can hold, as 10**400
PyFloat(h) == [t |-> "float", v |-> h]
PyNan == [t |-> "nan", v |-> 0]
PyInf == [t |-> "inf", v |-> 1]                   \* 1e999
PyNegInf == [t |-> "inf", v |-> -1]
PyBool(b) == [t |-> "bool", v |-> IF b THEN 1 ELSE 0]
PyNumberStr(h) == [t |-> "str_number", v |-> h]   \* "0.5": the text of a decimal number
PyTextWithNumber(h) == [t |-> "str_with_number", v |-> h]   \* "$2.50 each"
PyText == [t |-> "str_text", v |-> 0]             \* "free"
PyList == [t |-> "list", v |-> 0]

\* x is None: dict.get gives None for a key that is not there.
IsNone(x) == x.t \in {"absent", "none"}

\* A float: finite, not a number, or infinite.
Fin(h) == [k |-> "fin", v |-> h]
Nan == [k |-> "nan", v |-> 0]
Inf(sign) == [k |-> "inf", v |-> sign]

Value(f) == [exc |-> "", val |-> f]
Exc(name) == [exc |-> name, val |-> Nan]

\* float(raw).
float(raw) ==
    CASE raw.t \in {"int", "bool"} -> Value(Fin(raw.v * 100))
      [] raw.t = "bigint" -> Exc("OverflowError")
      [] raw.t \in {"float", "str_number"} -> Value(Fin(raw.v))
      [] raw.t = "nan" -> Value(Nan)
      [] raw.t = "inf" -> Value(Inf(raw.v))
      [] raw.t \in {"str_with_number", "str_text"} -> Exc("ValueError")
      [] OTHER -> Exc("TypeError")

\* a < b for floats: never true of not-a-number.
Lt(a, b) ==
    /\ a.k # "nan" /\ b.k # "nan"
    /\ \/ a.k = "fin" /\ b.k = "fin" /\ a.v < b.v
       \/ a.k = "inf" /\ a.v < 0 /\ b # a
       \/ b.k = "inf" /\ b.v > 0 /\ b # a

\* min(a, b) and max(a, b) of Python: the first argument unless the second is smaller
\* (greater).
min(a, b) == IF Lt(b, a) THEN b ELSE a
max(a, b) == IF Lt(a, b) THEN b ELSE a

\* Lines 97-107, for a payload whose only status key is "status".
_status_from_payload(payload) == Upper(payload.status)

\* Line 129.
Clamp(value) == max(Fin(0), min(Fin(10000), value))

\* Lines 110-129.  A source is the dict the progress is read from.
_progress_from_payload(payload) ==
    LET source == IF payload.data_is_dict THEN payload.data ELSE payload.outer
        raw1 == source.progress
        raw2 == IF IsNone(raw1) THEN source.progress_percent ELSE raw1
        raw3 == IF IsNone(raw2) THEN source.percentage ELSE raw2
        raw == IF IsNone(raw3) /\ source.metrics_is_dict THEN source.metrics_progress ELSE raw3
        converted == float(IF ~IsNone(raw) THEN raw ELSE PyFloat(0))
    IN  IF converted.exc \in {"TypeError", "ValueError"} THEN Value(Fin(0))
        ELSE IF converted.exc # "" THEN converted
        ELSE LET value == converted.val
                 scaled == IF ~Lt(value, Fin(0)) /\ ~Lt(Fin(100), value) /\ value.k = "fin"
                           THEN Fin(value.v * 100) ELSE value
             IN  Value(Clamp(scaled))

\* Faulty variant of _on_status: the progress of a COMPLETED status is not set to 100.
_on_statusAsRead(payload, ctx) ==
    LET progress == _progress_from_payload(payload)
    IN  IF progress.exc # "" THEN [exc |-> progress.exc, reported |-> <<>>]
        ELSE [exc |-> "", reported |-> IF ~ctx THEN <<>> ELSE <<progress.val>>]

\* Lines 199-205: what the handler reports to ctx, or the exception it lets go.
_on_status(payload, ctx) ==
    LET state == _status_from_payload(payload)
        progress == _progress_from_payload(payload)
    IN  IF progress.exc # "" THEN [exc |-> progress.exc, reported |-> <<>>]
        ELSE [exc |-> "",
              reported |-> IF ~ctx THEN <<>>
                           ELSE IF state = "COMPLETED" THEN <<Fin(10000)>>
                           ELSE <<progress.val>>]

\* The raw values a status event can carry as its progress.
RawProgress ==
    { Absent, PyNull, PyInt(-5), PyInt(0), PyInt(1), PyInt(50), PyInt(100), PyInt(150),
      PyBigInt, PyFloat(-50), PyFloat(0), PyFloat(25), PyFloat(100), PyFloat(150),
      PyFloat(9950), PyFloat(10000), PyFloat(25000), PyNan, PyInf, PyNegInf,
      PyBool(TRUE), PyBool(FALSE), PyNumberStr(50), PyNumberStr(7500),
      PyTextWithNumber(7500), PyText, PyList }

ProgressSources ==
    [progress : RawProgress,
     progress_percent : {Absent, PyFloat(25)},
     percentage : {Absent, PyInt(150)},
     metrics_is_dict : BOOLEAN,
     metrics_progress : {PyFloat(50)}]

\* A source that matters only where it must be ignored.
OtherSource ==
    [progress |-> PyInt(7), progress_percent |-> Absent, percentage |-> Absent,
     metrics_is_dict |-> FALSE, metrics_progress |-> PyFloat(50)]

StatusEvents ==
    { [status |-> st, data_is_dict |-> d,
       outer |-> IF d THEN OtherSource ELSE source,
       data |-> IF d THEN source ELSE OtherSource] :
        st \in {"completed", "COMPLETED", "IN_PROGRESS", ABSENT},
        d \in BOOLEAN, source \in ProgressSources }

\* The raw value the handler is to read from an event.
RawOf(payload) ==
    LET source == IF payload.data_is_dict THEN payload.data ELSE payload.outer
    IN  IF ~IsNone(source.progress) THEN source.progress
        ELSE IF ~IsNone(source.progress_percent) THEN source.progress_percent
        ELSE IF ~IsNone(source.percentage) THEN source.percentage
        ELSE IF source.metrics_is_dict THEN source.metrics_progress
        ELSE Absent

OnStatusCalls ==
    { Call("_on_status", [payload |-> payload, ctx |-> ctx]) :
        payload \in StatusEvents, ctx \in BOOLEAN }

OnStatus ==
    /\ Calling("_on_status")
    /\ fn' = Called(_on_status(fn.arg.payload, fn.arg.ctx))
    /\ UNCHANGED <<waitVars, gateVars, fsVars>>

(***************************************************************************)
(* Cost and duration.  A payload is given by the values under the known    *)
(* key paths, in their fixed order, in itself and in its nested data;      *)
(* Absent stands for a path that _get_nested cannot follow to its end.     *)
(***************************************************************************)
cost_paths ==
    << <<"cost_usd">>, <<"cost">>, <<"usage", "cost_usd">>, <<"usage", "cost">>,
       <<"usage", "total_cost">>, <<"metrics", "cost">> >>
duration_paths ==
    << <<"duration_ms">>, <<"latency_ms">>, <<"timings", "duration_ms">>,
       <<"timings", "total_ms">>, <<"metrics", "duration_ms">> >>

\* An int, and no value at all (None).
Whole(n) == [k |-> "int", v |-> n]
NoValue == [k |-> "none", v |-> 0]

\* Lines 132-138: None for a path that is not there, else the value.
_get_nested(source, n) == IF source[n] = Absent THEN PyNull ELSE source[n]

\* Lines 154-163: what one raw value makes of the loop: go on, return, or raise.
CostStep(raw) ==
    IF IsNone(raw) THEN [go |-> "continue", exc |-> "", val |-> NoValue]
    ELSE IF raw.t \in {"int", "bigint", "float", "nan", "inf", "bool"}
    THEN IF float(raw).exc # ""
         THEN [go |-> "raise", exc |-> float(raw).exc, val |-> NoValue]
         ELSE [go |-> "return", exc |-> "", val |-> float(raw).val]
    ELSE IF raw.t \in {"str_number", "str_with_number"}
    THEN [go |-> "return", exc |-> "", val |-> Fin(raw.v)]
    ELSE [go |-> "continue", exc |-> "", val |-> NoValue]

\* int(x) of a float: towards zero; no int for not-a-number and the infinities.
int(x) ==
    CASE x.k = "nan" -> [exc |-> "ValueError", val |-> NoValue]
      [] x.k = "inf" -> [exc |-> "OverflowError", val |-> NoValue]
      [] OTHER -> [exc |-> "",
                   val |-> Whole(IF x.v >= 0 THEN x.v \div 100 ELSE -((-x.v) \div 100))]

\* Lines 180-186.
DurationStep(raw) ==
    IF IsNone(raw) THEN [go |-> "continue", exc |-> "", val |-> NoValue]
    ELSE LET f == float(raw)
             exc == IF f.exc # "" THEN f.exc ELSE int(f.val).exc
         IN  IF exc \in {"TypeError", "ValueError"}
             THEN [go |-> "continue", exc |-> "", val |-> NoValue]
             ELSE IF exc # "" THEN [go |-> "raise", exc |-> exc, val |-> NoValue]
             ELSE [go |-> "return", exc |-> "", val |-> int(f.val).val]

\* The raw values in the order the two loops read them: every path of the payload, then
\* every path of data when data is a dict.
Probed(outer, data_is_dict, data) ==
    LET of(source) == [n \in 1..Len(source) |-> _get_nested(source, n)]
    IN  of(outer) \o (IF data_is_dict THEN of(data) ELSE <<>>)

\* The loops: the first step that does not go on decides; None when all go on.
Scan(steps) ==
    LET decided == { n \in 1..Len(steps) : steps[n].go # "continue" }
    IN  IF decided = {} THEN [exc |-> "", val |-> NoValue]
        ELSE LET first == CHOOSE n \in decided : \A m \in decided : n <= m
             IN  [exc |-> steps[first].exc, val |-> steps[first].val]

\* Lines 141-164.
_extract_cost_usd(payload) ==
    LET raws == Probed(payload.cost, payload.data_is_dict, payload.data_cost)
    IN  Scan([n \in 1..Len(raws) |-> CostStep(raws[n])])

\* Lines 167-187.
_extract_duration_ms(payload) ==
    LET raws == Probed(payload.duration, payload.data_is_dict, payload.data_duration)
    IN  Scan([n \in 1..Len(raws) |-> DurationStep(raws[n])])

\* A source with values under its first, second and last path only.
Source(paths, a, b, z) ==
    [n \in 1..Len(paths) |-> IF n = 1 THEN a ELSE IF n = 2 THEN b
                             ELSE IF n = Len(paths) THEN z ELSE Absent]

CostValues ==
    { Absent, PyNull, PyInt(0), PyInt(3), PyFloat(25), PyBool(TRUE), PyText,
      PyTextWithNumber(250), PyList, PyBigInt }
DurationValues ==
    { Absent, PyNull, PyInt(0), PyInt(1200), PyFloat(150), PyNumberStr(1270), PyText,
      PyTextWithNumber(250), PyList, PyBigInt, PyInf, PyNan }

NoCost == Source(cost_paths, Absent, Absent, Absent)
NoDuration == Source(duration_paths, Absent, Absent, Absent)

CostPayloads ==
    { [cost |-> Source(cost_paths, a, b, z), duration |-> NoDuration, data_is_dict |-> d,
       data_cost |-> Source(cost_paths, c, Absent, Absent), data_duration |-> NoDuration] :
        a \in CostValues, b \in CostValues, z \in {Absent, PyInt(3)},
        d \in BOOLEAN, c \in {Absent, PyFloat(75), PyText} }
DurationPayloads ==
    { [cost |-> NoCost, duration |-> Source(duration_paths, a, b, z), data_is_dict |-> d,
       data_cost |-> NoCost, data_duration |-> Source(duration_paths, c, Absent, Absent)] :
        a \in DurationValues, b \in DurationValues, z \in {Absent, PyInt(1200)},
        d \in BOOLEAN, c \in {Absent, PyInt(900), PyText} }

ExtractCostCalls == { Call("_extract_cost_usd", payload) : payload \in CostPayloads }
ExtractDurationCalls == { Call("_extract_duration_ms", payload) : payload \in DurationPayloads }

ExtractCost ==
    /\ Calling("_extract_cost_usd")
    /\ fn' = Called(_extract_cost_usd(fn.arg))
    /\ UNCHANGED <<waitVars, gateVars, fsVars>>

ExtractDuration ==
    /\ Calling("_extract_duration_ms")
    /\ fn' = Called(_extract_duration_ms(fn.arg))
    /\ UNCHANGED <<waitVars, gateVars, fsVars>>

\* bool(x) of an optional number: None and zero are false, all else is true.
Truth(x) == x.k # "none" /\ ~(x.k \in {"fin", "int"} /\ x.v = 0)

\* Lines 267-268: a or b, where b is computed only when a is false.
Or(a, b) ==
    IF a.exc # "" THEN a
    ELSE IF Truth(a.val) THEN a
    ELSE b

\* Lines 267-286: the duration and the cost of the outcome, or the exception.
OutcomeNumbers(result_payload, terminal_status) ==
    LET duration_ms == Or(_extract_duration_ms(result_payload), _extract_duration_ms(terminal_status))
        cost_usd == Or(_extract_cost_usd(result_payload), _extract_cost_usd(terminal_status))
    IN  IF duration_ms.exc # ""
        THEN [exc |-> duration_ms.exc, duration_ms |-> NoValue, cost_usd |-> NoValue]
        ELSE IF cost_usd.exc # ""
        THEN [exc |-> cost_usd.exc, duration_ms |-> NoValue, cost_usd |-> NoValue]
        ELSE [exc |-> "", duration_ms |-> duration_ms.val, cost_usd |-> cost_usd.val]

\* A payload with at most a cost and a duration, each under its first key path.
Priced(cost, duration) ==
    [cost |-> Source(cost_paths, cost, Absent, Absent),
     duration |-> Source(duration_paths, duration, Absent, Absent),
     data_is_dict |-> FALSE, data_cost |-> NoCost, data_duration |-> NoDuration]

OutcomeCalls ==
    { Call("_generate_once",
           [result_payload |-> Priced(c, d), terminal_status |-> Priced(sc, sd)]) :
        c \in {Absent, PyInt(0), PyFloat(0), PyFloat(25), PyText},
        d \in {Absent, PyInt(0), PyFloat(50), PyInt(1200)},
        sc \in {Absent, PyInt(0), PyFloat(75)},
        sd \in {Absent, PyInt(0), PyInt(900)} }

OutcomeOfGeneration ==
    /\ Calling("_generate_once")
    /\ fn' = Called(OutcomeNumbers(fn.arg.result_payload, fn.arg.terminal_status))
    /\ UNCHANGED <<waitVars, gateVars, fsVars>>

(***************************************************************************)
(* The paths a fan-out gives its items.  A directory is a sequence of      *)
(* names as before; the base of a file name is the sequence of characters  *)
(* that _slugify_model_id gives, with "_" and the index after it in a      *)
(* batch.                                                                  *)
(***************************************************************************)
RepoDir == Root \o <<"repo">>

\* str(idx + 1).
IndexText(n) ==
    CASE n = 1 -> "1"
      [] n = 2 -> "2"
      [] n = 3 -> "3"
      [] OTHER -> "4"

\* Lines 425-433: output_base / f"{slug}_{idx + 1}" and repo_dir / f"{slug}_{idx + 1}".
batch_paths(base, model_id, n) ==
    [i \in 1..n |->
        [dir |-> base,
         name |-> FileName(_slugify_model_id(model_id) \o <<"_", IndexText(i)>>, <<>>, NoExt)]]

\* Lines 485-495: output_base / slug and repo_dir / slug, one per model identifier.
compare_paths(base, ids) ==
    [i \in 1..Len(ids) |->
        [dir |-> base, name |-> FileName(_slugify_model_id(ids[i]), <<>>, NoExt)]]

\* Lines 251-252: the file each item resolves its output path to, when every item
\* resolves before any item's download has created its file (download_to_file opens
\* the file only after the response has arrived, line 129): every item sees the same
\* disk.
ResolvedTogether(paths, existing) ==
    [i \in 1..Len(paths) |-> unique_path(WithSuffix(paths[i], ".png"), existing)]

\* What a fan-out hands to its orchestrations.
FanOut(output_paths, existing) ==
    [output_paths |-> output_paths,
     repo_paths |-> [i \in 1..Len(output_paths) |-> [output_paths[i] EXCEPT !.dir = RepoDir]],
     resolved |-> ResolvedTogether(output_paths, existing)]

\* The files an earlier fan-out to the same directory may have left.
FanOutDisks ==
    { {}, {[dir |-> OutDir, name |-> FileName(<<"a", "-", "c">>, <<>>, ".png")]} }

\* The lists generate_compare accepts: 2..MaxModels identifiers, each matching the
\* pattern; nothing asks that they differ.
CompareLists == UNION { [1..n -> ModelIds] : n \in 2..MaxModels }

FanOutCalls ==
    { Call("generate_batch", [model_id |-> model_id, count |-> n, existing |-> existing]) :
        model_id \in ModelIds, n \in 1..BatchCount, existing \in FanOutDisks }
    \cup { Call("generate_compare", [model_ids |-> ids, existing |-> existing]) :
             ids \in CompareLists, existing \in FanOutDisks }

FanOutBatch ==
    /\ Calling("generate_batch")
    /\ fn' = Called(FanOut(batch_paths(OutDir, fn.arg.model_id, fn.arg.count), fn.arg.existing))
    /\ UNCHANGED <<waitVars, gateVars, fsVars>>

FanOutCompare ==
    /\ Calling("generate_compare")
    /\ fn' = Called(FanOut(compare_paths(OutDir, fn.arg.model_ids), fn.arg.existing))
    /\ UNCHANGED <<waitVars, gateVars, fsVars>>

(***************************************************************************)
(* Pagination: search_models and list_models of FalClient, and the         *)
(* search_models tool in front of the first.  An optional string is        *)
(* ABSENT (None), "" or a text; the query parameters of a request are a    *)
(* set of <<key, value>> pairs.                                            *)
(***************************************************************************)
\* bool(s) for an optional string.
NotEmpty(s) == s \notin {ABSENT, ""}

\* a or b.
Or2(a, b) == IF NotEmpty(a) THEN a ELSE b

Ambiguous == [exc |-> "AMBIGUOUS_PAGINATION_CURSOR", sent |-> FALSE, params |-> {}]
Sent(params) == [exc |-> "", sent |-> TRUE, params |-> params]

\* fal_client.py lines 162-167 and 181-186: the parameters after the first.
Optional(category, effective_cursor) ==
    (IF NotEmpty(category) THEN {<<"category", category>>} ELSE {})
    \cup (IF NotEmpty(effective_cursor) THEN {<<"cursor", effective_cursor>>} ELSE {})

\* FalClient.search_models, lines 150-168.
client_search_models(query, category, cursor, page) ==
    IF NotEmpty(cursor) /\ NotEmpty(page) /\ cursor # page THEN Ambiguous
    ELSE Sent({<<"q", query>>} \cup Optional(category, Or2(cursor, page)))

\* FalClient.list_models, lines 170-187.
list_models(category, cursor, page) ==
    IF NotEmpty(cursor) /\ NotEmpty(page) /\ cursor # page THEN Ambiguous
    ELSE Sent(Optional(category, Or2(cursor, page)))

\* SearchModelsInput.normalize_cursor, models.py lines 84-91: the cursor the validated
\* input holds; the page takes its place only when the cursor is None.
normalize_cursor(cursor, page) == IF cursor = ABSENT THEN page ELSE cursor

\* The search_models tool, server.py lines 294-310: the input is validated, and
\* the client is called with the cursor of the validated input and no page.
search_models(query, category, cursor, page) ==
    IF NotEmpty(cursor) /\ NotEmpty(page) /\ cursor # page THEN Ambiguous
    ELSE client_search_models(query, category, normalize_cursor(cursor, page), ABSENT)

OptionalStrings == {ABSENT, "", "a", "b"}
PageCalls ==
    { Call(name, [category |-> category, cursor |-> cursor, page |-> page]) :
        name \in {"FalClient.search_models", "FalClient.list_models", "search_models"},
        category \in {ABSENT, "image"}, cursor \in OptionalStrings, page \in OptionalStrings }

Paginate ==
    /\ \/ /\ Calling("FalClient.search_models")
          /\ fn' = Called(client_search_models("flux", fn.arg.category, fn.arg.cursor, fn.arg.page))
       \/ /\ Calling("FalClient.list_models")
          /\ fn' = Called(list_models(fn.arg.category, fn.arg.cursor, fn.arg.page))
       \/ /\ Calling("search_models")
          /\ fn' = Called(search_models("flux", fn.arg.category, fn.arg.cursor, fn.arg.page))
    /\ UNCHANGED <<waitVars, gateVars, fsVars>>

(***************************************************************************)
(* The validation at the boundary of the tools.  A model identifier is a   *)
(* sequence of characters.                                                 *)
(***************************************************************************)
MAX_PROMPT_LENGTH == 10000
MAX_BATCH_COUNT == 10
MAX_COMPARE_MODELS == 6

\* [A-Za-z0-9] and [A-Za-z0-9._-], for the characters of the model.
AlNum(ch) == ch \in {"a", "b", "c", "A"}
NameChar(ch) == AlNum(ch) \/ ch \in {".", "_", "-"}

\* The whole of s is name/name(/name)*, each name an AlNum followed by NameChars.
IsModelId(s) ==
    /\ \E k \in 1..Len(s) : s[k] = "/"
    /\ \A k \in 1..Len(s) :
          IF s[k] = "/" THEN k > 1 /\ k < Len(s) /\ s[k - 1] # "/"
          ELSE IF k = 1 \/ s[k - 1] = "/" THEN AlNum(s[k])
          ELSE NameChar(s[k])

\* models.py line 10 and MODEL_ID_PATTERN.match(value): "^" and match() hold the
\* start, and "$" stands at the end of the string or just before a newline that ends
\* it.
MODEL_ID_PATTERN_match(s) ==
    \/ IsModelId(s)
    \/ Len(s) > 0 /\ s[Len(s)] = "\n" /\ IsModelId(SubSeq(s, 1, Len(s) - 1))

\* The first of the errors seq that is there: errors[0] of the ValidationError, the
\* fields in the order of their declaration.
FirstError(seq) ==
    LET there == { k \in 1..Len(seq) : seq[k] # "" }
    IN  IF there = {} THEN "" ELSE seq[CHOOSE k \in there : \A j \in there : k <= j]

validate_model_id(value) == IF MODEL_ID_PATTERN_match(value) THEN "" ELSE "INVALID_MODEL_ID"
validate_prompt_length(n) == IF n > MAX_PROMPT_LENGTH THEN "PROMPT_TOO_LONG" ELSE ""
Bounded(n, lo, hi) == IF n < lo \/ n > hi THEN "VALIDATION_ERROR" ELSE ""

\* models.py lines 58-69: the size of the list is tested first, its members after.
validate_model_ids(ids) ==
    IF Bounded(Len(ids), 2, MAX_COMPARE_MODELS) # "" THEN "VALIDATION_ERROR"
    ELSE IF \E k \in 1..Len(ids) : ~MODEL_ID_PATTERN_match(ids[k]) THEN "INVALID_MODEL_ID"
    ELSE ""

\* models.py lines 13-119 with server.py lines 36-51: the code of the error a tool
\* raises for its input, "" when the input is valid.
Validate(tool, arg) ==
    CASE tool = "generate" ->
           FirstError(<<validate_model_id(arg.model_id), validate_prompt_length(arg.prompt)>>)
      [] tool = "generate_batch" ->
           FirstError(<<validate_model_id(arg.model_id), validate_prompt_length(arg.prompt),
                        Bounded(arg.count, 1, MAX_BATCH_COUNT)>>)
      [] tool = "generate_compare" ->
           FirstError(<<validate_model_ids(arg.model_ids), validate_prompt_length(arg.prompt)>>)
      [] tool = "get_schema" -> validate_model_id(arg.model_id)
      [] OTHER ->
           FirstError(<<IF arg.request_id = "" THEN "VALIDATION_ERROR" ELSE "",
                        validate_model_id(arg.model_id)>>)

\* Each tool of server.py (lines 318-543): it raises the validation error, or goes on
\* to create its output directory (batch and compare), its client and its requests.
Tool(tool, arg) ==
    [exc |-> Validate(tool, arg), started |-> Validate(tool, arg) = "",
     mkdir |-> Validate(tool, arg) = "" /\ tool \in {"generate_batch", "generate_compare"}]

ValidatedTools ==
    {"generate", "generate_batch", "generate_compare", "get_schema", "get_job_status", "cancel_job"}
ToolModelIds ==
    { <<"a", "/", "b">>, <<"a", "/", "b", "/", "c">>, <<"A", ".", "/", "b", "-", "c">>,
      <<"a", "/", "b", "\n">>, <<"a", "/", "b", "\n", "\n">>, <<"a", "\n", "/", "b">>,
      <<>>, <<"a">>, <<"a", "/">>, <<"/", "a", "/", "b">>, <<"a", "/", "/", "b">>,
      <<".", "a", "/", "b">>, <<"a", " ", "/", "b">> }
ToolLists ==
    { [i \in 1..n |-> IF i = n THEN last ELSE <<"a", "/", "b">>] :
        n \in {1, 2, MAX_COMPARE_MODELS, MAX_COMPARE_MODELS + 1}, last \in ToolModelIds }
ToolArgs ==
    [model_id : ToolModelIds, model_ids : {<<>>},
     prompt : {0, MAX_PROMPT_LENGTH + 1}, count : {1}, request_id : {"r1"}]
    \cup [model_id : {<<"a", "/", "b">>, <<"a">>}, model_ids : {<<>>},
          prompt : {0, MAX_PROMPT_LENGTH, MAX_PROMPT_LENGTH + 1},
          count : {0, 1, MAX_BATCH_COUNT, MAX_BATCH_COUNT + 1}, request_id : {"", "r1"}]
    \cup [model_id : {<<>>}, model_ids : ToolLists \cup {<<>>},
          prompt : {0, MAX_PROMPT_LENGTH + 1}, count : {1}, request_id : {"r1"}]
ToolCalls ==
    { Call("Tool", [tool |-> tool, input |-> arg]) : tool \in ValidatedTools, arg \in ToolArgs }

ToolCall ==
    /\ Calling("Tool")
    /\ fn' = Called(Tool(fn.arg.tool, fn.arg.input))
    /\ UNCHANGED <<waitVars, gateVars, fsVars>>

FnCalls ==
    RequestCalls
    \cup DetectCalls
    \cup ExtractCalls
    \cup OnStatusCalls
    \cup ExtractCostCalls
    \cup ExtractDurationCalls
    \cup OutcomeCalls
    \cup FanOutCalls
    \cup PageCalls
    \cup ToolCalls

FnsAtRest ==
    /\ WaitAtRest
    /\ GateAtRest
    /\ disk = <<>> /\ dirs = {} /\ fpc = "none" /\ fcall = <<>> /\ fret = <<>>
    /\ gens = 0 /\ gres = "none" /\ snap = <<>> /\ gsnap = <<>> /\ fin = <<>>

InitFns ==
    /\ FnsAtRest
    /\ fn \in FnCalls

Request ==
    /\ Calling("_request")
    /\ fn' = Called(_request(RequestUrl(fn.arg.op, fn.arg.model_id), fn.arg.response))
    /\ UNCHANGED <<waitVars, gateVars, fsVars>>

NextFns ==
    \/ Request
    \/ Detect
    \/ Extract
    \/ OnStatus
    \/ ExtractCost
    \/ ExtractDuration
    \/ OutcomeOfGeneration
    \/ FanOutBatch
    \/ FanOutCompare
    \/ Paginate
    \/ ToolCall

SpecFns == InitFns /\ [][NextFns]_vars

\* The outcome the precedence gives a call that is not the usage history call: a 403
\* is then one of the other statuses that are not 2xx.
Precedence(response) ==
    IF response.status_code = 429
    THEN RequestRaised("RATE_LIMITED",
                       IF response.retry_after = ABSENT THEN "unknown"
                       ELSE response.retry_after)
    ELSE IF response.status_code = 404
    THEN RequestRaised("MODEL_NOT_FOUND", "")
    ELSE IF response.status_code = 504 /\ response.timeout_type = "user"
    THEN RequestRaised("QUEUE_START_TIMEOUT", "")
    ELSE IF response.status_code < 200 \/ response.status_code > 299
    THEN RequestRaised("FAL_API_ERROR", "")
    ELSE IF response.content = NoContent
    THEN RequestReturned("{}")
    ELSE IF response.content = NonJsonContent
    THEN RequestRaised("INVALID_RESPONSE", "")
    ELSE RequestReturned(Json(response.content).value)

\* C22: every answer to a submit, status, result, cancel or model lookup call is
\* mapped by the precedence 429, 404, 403 of the usage endpoint, 504 with timeout
\* type user, any other status that is not 2xx, a body that is no JSON, and else the
\* parsed body is returned.  None of these calls is the usage endpoint.
C22_RequestPrecedence ==
    /\ Done("_request")
    /\ fn.arg.op \in QueueOps \cup LookupOps
    /\ fn.arg.response # NoResponse
    => fn.ret = Precedence(fn.arg.response)

\* A submit for a model whose id holds the segments models/usage is answered 403
\* and fails with ADMIN_KEY_REQUIRED.
C22_Witness ==
    /\ Done("_request")
    /\ fn.arg.op = "submit_job"
    /\ fn.arg.response.status_code = 403
    /\ fn.ret.code = "ADMIN_KEY_REQUIRED"

\* C22, the part that holds: for a model id without the segments models/usage the
\* precedence is the one stated.
C22_PrecedenceForPlainModelIds ==
    /\ Done("_request")
    /\ fn.arg.op \in QueueOps \cup LookupOps
    /\ fn.arg.response # NoResponse
    /\ ~InUrl(<<"models", "usage">>, RequestUrl(fn.arg.op, fn.arg.model_id))
    => fn.ret = Precedence(fn.arg.response)

\* C29: detect_type_and_ext decides by the extension of the URL whenever the table
\* holds it, whatever the content type; it decides by the media type the content type
\* names, in any case of letters and with or without parameters, only when the table
\* does not hold the extension; it gives (unknown, None) when neither is known.
C29_ExtensionBeforeContentType ==
    Done("detect_type_and_ext") =>
        LET a == fn.arg
            canonical_ext == CONTENT_TYPE_TO_EXT(a.base)
        IN  IF EXT_TO_MEDIA(a.ext) # "unknown"
            THEN fn.ret = [media |-> EXT_TO_MEDIA(a.ext), ext |-> a.ext]
            ELSE IF a.header /\ canonical_ext # NoneExt
            THEN fn.ret = [media |-> EXT_TO_MEDIA(canonical_ext), ext |-> canonical_ext]
            ELSE fn.ret = [media |-> "unknown", ext |-> NoneExt]

\* A URL ending in .json answered with " VIDEO/MP4 ; charset=utf-8" is a video, .mp4.
C29_Witness ==
    /\ Done("detect_type_and_ext")
    /\ fn.arg.ext = ".json"
    /\ fn.arg.header /\ fn.arg.caps /\ fn.arg.lead
    /\ fn.arg.parameters = <<" ", ";", " ", "charset=utf-8">>
    /\ fn.ret = [media |-> "video", ext |-> ".mp4"]

RECURSIVE Candidates(_)
\* Every string of a payload that starts with http:// or https://, at any depth, in
\* the order of the traversal: a string itself; the values of an object under the
\* preferred keys in their fixed order and then under all its keys; the items of a list.
Candidates(payload) ==
    IF payload.t = "str"
    THEN IF payload.s # <<>> /\ payload.s[1] \in {"http://", "https://"}
         THEN <<payload.s>> ELSE <<>>
    ELSE LET RECURSIVE Over(_)
             Over(values) ==
                 IF values = <<>> THEN <<>>
                 ELSE Candidates(Head(values)) \o Over(Tail(values))
         IN  Over(Visited(payload))

\* C28: _extract_first_media_url returns None if and only if the payload holds no
\* string starting with http:// or https:// at any depth; otherwise it returns, in the
\* order of the traversal, the first such string whose extension is that of an image, a
\* video or an audio file, or else the first such string.
C28_FirstMediaUrl ==
    Done("_extract_first_media_url") =>
        LET all == Candidates(fn.arg)
            media == SelectSeq(all, IsMedia)
        IN  /\ fn.ret = NoUrl <=> all = <<>>
            /\ all # <<>> => fn.ret = (IF media # <<>> THEN media[1] ELSE all[1])

\* {"output": ["https://cdn/a.json"], "data": {"z": "https://cdn/a.json",
\* "url": "https://cdn/b.png"}} gives the .png URL, the third candidate of the traversal.
C28_Witness ==
    /\ Done("_extract_first_media_url")
    /\ fn.arg = JsonDict(<<Item("output", JsonList(<<JsonStr(UrlJson)>>)),
                           Item("data", JsonDict(<<Item("z", JsonStr(UrlJson)),
                                                   Item("url", JsonStr(UrlPng))>>))>>)
    /\ Candidates(fn.arg)[3] = UrlPng
    /\ Candidates(fn.arg)[1] = UrlJson
    /\ fn.ret = UrlPng

(***************************************************************************)
(* Claims about what an orchestration receives and sends (SpecCalls).      *)
(***************************************************************************)
\* The submit call of item i returned a body with no request identifier that is not
\* empty, under either key.
NoRequestId(i) ==
    /\ orch.got[i]
    /\ orch.submitted[i].request_id \in {ABSENT, ""}
    /\ orch.submitted[i].requestId \in {ABSENT, ""}

\* C23: an orchestration whose submit response holds no request identifier that is not
\* empty fails with INVALID_RESPONSE, sends no stream, status, result or download call,
\* has released its gate slot and has closed its client.
C23_NoRequestIdFailsAtOnce ==
    \A i \in 1..count :
        NoRequestId(i) =>
            /\ pc[i] = "failed"
            /\ err[i] = GenvoyToolError("INVALID_RESPONSE")
            /\ orch.calls[i] = <<>>
            /\ log[i] = << <<"submit", "start">>, <<"submit", "failed">> >>
            /\ client[i] = "closed"
            /\ SEMAPHORE.owners[i] = 0
            /\ SEMAPHORE.releases[i] = 1

\* The first model's submit returned {"requestId": ""} and failed, and the second
\* model, whose submit returned an identifier, has fetched its result.
C23_Witness ==
    /\ orch.got[1]
    /\ orch.submitted[1] = [request_id |-> ABSENT, requestId |-> ""]
    /\ pc[1] = "failed"
    /\ pc[2] = "download"
    /\ Len(orch.calls[2]) >= 2

\* The result call of item i returned a payload with no string starting with http:// or
\* https:// at any depth.
NoMediaUrl(i) ==
    /\ orch.result[i] \in ItemResults
    /\ Candidates(orch.result[i]) = <<>>

\* The calls of one kind that item i has sent.
CallsOf(i, op) == SelectSeq(orch.calls[i], LAMBDA c : c.op = op)

\* C24: an orchestration whose result payload holds no http(s) URL at any depth fails
\* with INVALID_RESPONSE, sends no download request and writes no output file: the
\* download, the only step that writes one, is never started.
C24_NoUrlNoDownload ==
    \A i \in 1..count :
        NoMediaUrl(i) =>
            /\ pc[i] = "failed"
            /\ err[i] = GenvoyToolError("INVALID_RESPONSE")
            /\ CallsOf(i, "download") = <<>>
            /\ \A n \in 1..Len(log[i]) : log[i][n][1] \notin {"download", "copy"}
            /\ log[i][Len(log[i])] = <<"result", "ok">>

\* The first model's result was {"data": ["ftp://cdn/d.png", 1]} and it failed; the
\* second model's result held a URL and its download has ended.
C24_Witness ==
    /\ orch.result[1] = JsonDict(<<Item("data", JsonList(<<JsonStr(FtpPng), JsonNum>>))>>)
    /\ pc[1] = "failed"
    /\ CallsOf(2, "download") # <<>>
    /\ pc[2] = "done"

\* The request identifier the submit response of item i held: the one under request_id,
\* or else the one under requestId.
Obtained(i) ==
    IF orch.submitted[i].request_id \notin {ABSENT, ""} THEN orch.submitted[i].request_id
    ELSE IF orch.submitted[i].requestId \notin {ABSENT, ""} THEN orch.submitted[i].requestId
    ELSE ""

\* The number of submit calls item i has sent.
Submits(i) == Len(SelectSeq(log[i], LAMBDA entry : entry = <<"submit", "start">>))

\* C30: each orchestration sends one submit call and never a second one; every stream,
\* status and result call it sends carries the request identifier its own submit
\* returned and its own model identifier; and in every interleaving of the fan-out no
\* request identifier obtained by one orchestration is carried by a call of another.
C30_OwnRequestIdOnly ==
    \A i \in 1..count :
        /\ Submits(i) <= 1
        /\ pc[i] \in Steps => Submits(i) = 1
        /\ \A n \in 1..Len(orch.calls[i]) :
             LET c == orch.calls[i][n] IN
             c.op \in {"stream", "status", "result"} =>
                 /\ Submits(i) = 1
                 /\ c.request_id = Obtained(i)
                 /\ c.request_id # ""
                 /\ c.model_id = model_ids[i]
                 /\ \A j \in 1..count \ {i} : c.request_id # Obtained(j)

\* The second model's submit returned first: it holds the first identifier and the first
\* model the second, and both have polled the status and fetched their result.
C30_Witness ==
    /\ Obtained(2) = RequestIdText(1)
    /\ Obtained(1) = RequestIdText(2)
    /\ \A i \in 1..2 : CallsOf(i, "status") # <<>> /\ CallsOf(i, "result") # <<>>

InRange(f) == f.k = "fin" /\ 0 <= f.v /\ f.v <= 10000

\* C25: for every raw input a status event carries, the handler reports to the
\* progress collaborator one value, and it lies in [0, 100]; an event whose state is
\* COMPLETED is reported as exactly 100 whatever raw progress it carries.
C25_ProgressAlwaysReportedInRange ==
    Done("_on_status") /\ fn.arg.ctx =>
        /\ fn.ret.exc = ""
        /\ Len(fn.ret.reported) = 1
        /\ InRange(fn.ret.reported[1])
        /\ _status_from_payload(fn.arg.payload) = "COMPLETED" => fn.ret.reported[1] = Fin(10000)

\* A COMPLETED event whose progress is an integer no float can hold: nothing is
\* reported and OverflowError leaves the handler.
C25_Witness ==
    /\ Done("_on_status")
    /\ fn.arg.ctx
    /\ fn.arg.payload.status = "COMPLETED"
    /\ RawOf(fn.arg.payload) = PyBigInt
    /\ fn.ret = [exc |-> "OverflowError", reported |-> <<>>]

\* C25, the part that holds: every value that is reported lies in [0, 100]; a value in
\* [0, 1] is reported times 100, a value in (1, 100] as it is, a greater one as 100, a
\* negative one as 0, a missing one or one that is no number as 0; COMPLETED is
\* reported as 100; and only an integer no float can hold keeps the handler from
\* reporting.
C25_ReportedValuesInRange ==
    Done("_on_status") /\ fn.arg.ctx =>
        LET raw == RawOf(fn.arg.payload)
            completed == fn.arg.payload.status \in {"completed", "COMPLETED"}
            reported == fn.ret.reported[1]
        IN  IF raw = PyBigInt THEN fn.ret = [exc |-> "OverflowError", reported |-> <<>>]
            ELSE /\ fn.ret.exc = ""
                 /\ Len(fn.ret.reported) = 1
                 /\ InRange(reported)
                 /\ completed => reported = Fin(10000)
                 /\ ~completed /\ raw.t = "float" /\ 0 <= raw.v /\ raw.v <= 100
                      => reported = Fin(raw.v * 100)
                 /\ ~completed /\ raw.t = "float" /\ 100 < raw.v /\ raw.v <= 10000
                      => reported = Fin(raw.v)
                 /\ ~completed /\ raw.t = "float" /\ raw.v > 10000 => reported = Fin(10000)
                 /\ ~completed /\ raw.t = "float" /\ raw.v < 0 => reported = Fin(0)
                 /\ ~completed /\ raw.t \in {"absent", "str_text", "str_with_number", "list"}
                      => reported = Fin(0)

\* The values under the known key paths that are present, the payload's before those of
\* data, for the function that was called.
PresentValues ==
    LET raws == IF fn.name = "_extract_cost_usd"
                THEN Probed(fn.arg.cost, fn.arg.data_is_dict, fn.arg.data_cost)
                ELSE Probed(fn.arg.duration, fn.arg.data_is_dict, fn.arg.data_duration)
    IN  SelectSeq(raws, LAMBDA raw : ~IsNone(raw))

\* What the function that was called makes of one value.
StepOf(raw) == IF fn.name = "_extract_cost_usd" THEN CostStep(raw) ELSE DurationStep(raw)

Extracted == Done("_extract_cost_usd") \/ Done("_extract_duration_ms")

\* C27: _extract_cost_usd and _extract_duration_ms return None exactly when none of the
\* known key paths is present in the payload or its nested data, and otherwise return
\* the value at the first present key path, the payload's paths before those of data.
C27_FirstPresentPath ==
    Extracted =>
        /\ fn.ret.exc = ""
        /\ fn.ret.val = NoValue <=> PresentValues = <<>>
        /\ PresentValues # <<>> => fn.ret.val = StepOf(PresentValues[1]).val

\* {"cost_usd": "free", "cost": 3} gives 3.0, the value at the second present path.
C27_Witness ==
    /\ Done("_extract_cost_usd")
    /\ fn.arg.cost[1] = PyText
    /\ fn.arg.cost[2] = PyInt(3)
    /\ fn.ret = [exc |-> "", val |-> Fin(300)]

\* {"duration_ms": 1e999} lets OverflowError go.
C27_WitnessOverflow ==
    /\ Done("_extract_duration_ms")
    /\ fn.arg.duration[1] = PyInf
    /\ fn.ret.exc = "OverflowError"

\* C27, what the code does: the values that are null or that cannot be converted (for
\* the cost: neither a number nor a string holding a decimal number; for the duration:
\* what int(float()) refuses with TypeError or ValueError) are passed over; the first
\* other value decides: it is returned converted, or, when it is a number beyond the
\* range of a float or of an int, OverflowError is raised; None when there is no such
\* value.
C27_FirstUsablePath ==
    Extracted =>
        LET usable == SelectSeq(PresentValues, LAMBDA raw : StepOf(raw).go # "continue")
        IN  IF usable = <<>> THEN fn.ret = [exc |-> "", val |-> NoValue]
            ELSE fn.ret = [exc |-> StepOf(usable[1]).exc, val |-> StepOf(usable[1]).val]

\* The value one of the two payloads yields, or the other's when it yields none.
Preferring(first, second) == IF first.val # NoValue THEN first.val ELSE second.val

\* C26: the cost and the duration of an outcome are the result payload's values whenever
\* the result payload yields one, a value of zero included; the terminal status payload's
\* value is used only when the result payload yields none; the field is absent when
\* neither yields one.
C26_ResultValueWins ==
    Done("_generate_once") =>
        /\ fn.ret.exc = ""
        /\ fn.ret.cost_usd = Preferring(_extract_cost_usd(fn.arg.result_payload),
                                       _extract_cost_usd(fn.arg.terminal_status))
        /\ fn.ret.duration_ms = Preferring(_extract_duration_ms(fn.arg.result_payload),
                                          _extract_duration_ms(fn.arg.terminal_status))

\* The result payload says the cost is 0 and the status payload says 0.75: the outcome
\* says 0.75.
C26_Witness ==
    /\ Done("_generate_once")
    /\ _extract_cost_usd(fn.arg.result_payload).val = Fin(0)
    /\ _extract_cost_usd(fn.arg.terminal_status).val = Fin(75)
    /\ fn.ret.cost_usd = Fin(75)

\* The result payload says the duration is 0 and the status payload says nothing: the
\* outcome has no duration.
C26_WitnessAbsent ==
    /\ Done("_generate_once")
    /\ _extract_duration_ms(fn.arg.result_payload).val = Whole(0)
    /\ _extract_duration_ms(fn.arg.terminal_status).val = NoValue
    /\ fn.ret.duration_ms = NoValue

\* C26, the part that holds: a value of the result payload that is not zero is the
\* outcome's; otherwise the outcome has what the terminal status payload yields.
C26_NonZeroResultValueWins ==
    Done("_generate_once") =>
        LET cost == _extract_cost_usd(fn.arg.result_payload).val
            duration == _extract_duration_ms(fn.arg.result_payload).val
        IN  /\ fn.ret.exc = ""
            /\ fn.ret.cost_usd = IF cost \notin {NoValue, Fin(0)} THEN cost
                                 ELSE _extract_cost_usd(fn.arg.terminal_status).val
            /\ fn.ret.duration_ms = IF duration \notin {NoValue, Whole(0)} THEN duration
                                    ELSE _extract_duration_ms(fn.arg.terminal_status).val

(***************************************************************************)
(* Claims about the fallback to polling (SpecStream, SpecPoll)             *)
(***************************************************************************)
\* The status the open of the stream was answered with is no 2xx status.
OpenRefused == strace.opened # <<>> /\ (strace.opened[1] < 200 \/ strace.opened[1] >= 300)

\* C37: when the open of the status stream is answered with any status outside 2xx
\* (429, 403, 500 and 504 as well as 404, 405 and 501), stream_job_status raises
\* SSE_UNAVAILABLE and wait_for_completion goes on to poll: it ends only after a status
\* call or with JOB_TIMEOUT, and an error of the status-code table (RATE_LIMITED,
\* QUEUE_START_TIMEOUT, FAL_API_ERROR, ...) is the error of a status call.
C37_RefusedOpenFallsBackToPolling ==
    strace.on /\ OpenRefused =>
        /\ streamResult = Raise(GenvoyToolError("SSE_UNAVAILABLE"))
        /\ wpc \in {"poll", "sleep", "done"}
        /\ wpc = "done" =>
              \/ strace.polled # <<>>
              \/ outcome = Raise(GenvoyToolError("JOB_TIMEOUT"))
        /\ outcome.kind = "raise" /\ outcome.err.code \in RequestErrorCodes =>
              /\ strace.polled # <<>>
              /\ strace.polled[Len(strace.polled)].err = outcome.err

\* The open was answered 429, the call went on to poll, and the status call was
\* answered 429 too: only then was RATE_LIMITED raised.
C37_Witness ==
    /\ strace.on
    /\ strace.opened = <<429>>
    /\ streamResult = Raise(GenvoyToolError("SSE_UNAVAILABLE"))
    /\ Len(strace.polled) = 1
    /\ outcome = Raise(GenvoyToolError("RATE_LIMITED"))

\* ceil(a / b) for a >= 0 and b > 0.
Ceil(a, b) == (a + b - 1) \div b

\* The status call answered with a status, and that status is not terminal.
InProgress(p) == p.err = NoError /\ ~IsTerminal(_status_value(p.payload))

\* The payloads of the status calls that returned one, in the order of the calls.
ReturnedPayloads ==
    LET returned == SelectSeq(strace.polled, LAMBDA p : p.err = NoError)
    IN  [i \in 1..Len(returned) |-> returned[i].payload]

\* What the polling loop does whatever the arithmetic of its clock: one callback for
\* each status call that returned, in order; nothing after the first status call that
\* raised or returned a terminal status; JOB_TIMEOUT exactly when every status call
\* returned a status that was not terminal (and no callback raised); no status call
\* at all when the timeout is not positive.
PollingLoopRules ==
    /\ Len(strace.polled) = polls
    /\ strace.poll_callbacks = IF has_on_status THEN ReturnedPayloads ELSE <<>>
    /\ \A i \in 1..(polls - 1) : InProgress(strace.polled[i])
    /\ polls > 0 /\ ~InProgress(strace.polled[polls]) => wpc = "done"
    /\ outcome = Raise(GenvoyToolError("JOB_TIMEOUT")) =>
          \A i \in 1..polls : InProgress(strace.polled[i])
    /\ wpc = "done" /\ (\A i \in 1..polls : InProgress(strace.polled[i])) =>
          \/ outcome = Raise(GenvoyToolError("JOB_TIMEOUT"))
          \/ outcome.kind = "raise" /\ outcome.err \in CallbackErrors
    /\ timeout_seconds <= 0 => polls = 0

\* C34, as the specification states it: in the polling fallback at most
\* ceil(timeout_seconds / poll_interval_seconds) status calls are made, the callback
\* is called once per poll in order, the loop stops at the first terminal status and
\* raises JOB_TIMEOUT exactly when every poll returned a status that was not terminal;
\* with a timeout that is not positive no poll is made.
C34_AtMostCeilingPolls ==
    strace.clock = "thirtieths" =>
        /\ polls <= Ceil(timeout_seconds, poll_interval_seconds)
        /\ PollingLoopRules

\* What holds in place of C34: the loop makes one status call for each partial sum of the interval,
\* added up in floating point, that is below the timeout.  That is at most
\* ceil(timeout_seconds / poll_interval_seconds) calls when the sums are exact and at
\* most one call more when they are rounded, and exactly that many or one more when
\* JOB_TIMEOUT is raised; the other rules of the loop hold as stated.
C34_OnePollPerPartialSumBelowTimeout ==
    strace.clock = "thirtieths" =>
        /\ polls <= Ceil(timeout_seconds, poll_interval_seconds) + 1
        /\ poll_interval_seconds # Tenth =>
              polls <= Ceil(timeout_seconds, poll_interval_seconds)
        /\ outcome = Raise(GenvoyToolError("JOB_TIMEOUT")) =>
              polls >= Ceil(timeout_seconds, poll_interval_seconds)
        /\ PollingLoopRules

\* With a timeout of one second and an interval of a tenth of a second the loop polled
\* eleven times, called the callback eleven times and raised JOB_TIMEOUT.
C34_Witness ==
    /\ strace.clock = "thirtieths"
    /\ timeout_seconds = 10 * Tenth
    /\ poll_interval_seconds = Tenth
    /\ polls = 11
    /\ Len(strace.poll_callbacks) = 11
    /\ outcome = Raise(GenvoyToolError("JOB_TIMEOUT"))

\* C38: in the polling fallback an error raised by a status call (RATE_LIMITED,
\* MODEL_NOT_FOUND, NETWORK_ERROR, FAL_API_ERROR, INVALID_RESPONSE, ...) ends
\* wait_for_completion at once with that same error: the failed call is the last one,
\* and the error is not replaced by JOB_TIMEOUT or JOB_FAILED.
C38_PollErrorEndsTheWait ==
    strace.clock = "thirtieths" =>
        \A i \in 1..Len(strace.polled) :
            strace.polled[i].err # NoError =>
                /\ i = Len(strace.polled)
                /\ polls = i
                /\ wpc = "done"
                /\ outcome = Raise(strace.polled[i].err)

\* The second status call was answered 404 after a first one that returned a status in
\* progress, and the wait ended with MODEL_NOT_FOUND.
C38_Witness ==
    /\ strace.clock = "thirtieths"
    /\ Len(strace.polled) = 2
    /\ InProgress(strace.polled[1])
    /\ strace.polled[2].err = GenvoyToolError("MODEL_NOT_FOUND")
    /\ outcome = Raise(GenvoyToolError("MODEL_NOT_FOUND"))

(***************************************************************************)
(* Claims about the progress reports of a wait (SpecStream)                *)
(***************************************************************************)
\* A status of the wait as _on_status reads it: its status string is the first present
\* of the keys of lines 97-107, and it has none of the progress keys.
NoProgress ==
    [progress |-> Absent, progress_percent |-> Absent, percentage |-> Absent,
     metrics_is_dict |-> FALSE, metrics_progress |-> Absent]
EventOf(p) ==
    [status |-> IF p.hasData THEN FirstPresent(<<p.dstatus, p.dstate, p.status, p.state>>)
                ELSE FirstPresent(<<p.status, p.state>>),
     data_is_dict |-> p.hasData, outer |-> NoProgress, data |-> NoProgress]

\* The statuses on_status was called with, those of the stream first.
Callbacks == strace.callbacks \o strace.poll_callbacks

\* Lines 199-213: _on_status is the on_status of the wait, so there is one call of it
\* for each callback; what each call reported to ctx.
Reports(ctx) == [i \in 1..Len(Callbacks) |-> _on_status(EventOf(Callbacks[i]), ctx).reported]

\* C35: whenever the wait of an orchestration returns a status, by the stream or by
\* polling, and a progress reporter was given, at least one progress report was
\* issued, the last one is 100 of 100 (here 10000 hundredths) and is the report for the
\* status returned, and no report is issued once the wait has returned; without a
\* reporter nothing is reported.
C35_LastReportIsHundred ==
    /\ [](strace.on /\ has_on_status /\ outcome.kind = "return" =>
            /\ Callbacks # <<>>
            /\ Callbacks[Len(Callbacks)] = outcome.payload
            /\ Reports(TRUE)[Len(Callbacks)] = <<Fin(10000)>>
            /\ \A i \in 1..Len(Callbacks) : Reports(FALSE)[i] = <<>>)
    /\ [][outcome.kind = "return" => strace' = strace]_vars

\* The stream gave a status in progress and closed; the poll that followed returned
\* COMPLETED: a report of 0 and then one of 100.
C35_Witness ==
    /\ strace.on
    /\ has_on_status
    /\ outcome.kind = "return"
    /\ Len(strace.callbacks) = 1
    /\ Len(strace.poll_callbacks) = 1
    /\ Reports(TRUE) = << <<Fin(0)>>, <<Fin(10000)>> >>

(***************************************************************************)
(* Claims about the client of an orchestration (SpecCalls)                 *)
(***************************************************************************)
\* Item i created a client: it was admitted and _get_client returned.
HasClient(i) == log[i] # <<>>

\* C31: the client an orchestration created is open exactly while the orchestration
\* is in its gated section, and on every way out of it (the result was fetched, the
\* submit call failed or gave no request identifier, the wait raised JOB_FAILED or
\* JOB_TIMEOUT, the result call failed) it is closed once, while the orchestration
\* still holds its slot, and the slot is released with that; a closed client stays
\* closed, and an orchestration that created no client closes none.
C31_ClientClosedOnceBeforeRelease ==
    /\ [](\A i \in 1..count :
            /\ client[i] \in {"none", "open", "closed"}
            /\ client[i] = "open" <=> pc[i] \in GatedSteps
            /\ HasClient(i) /\ pc[i] \notin GatedSteps =>
                  /\ client[i] = "closed"
                  /\ SEMAPHORE.owners[i] = 0
                  /\ SEMAPHORE.releases[i] = 1
            /\ ~HasClient(i) => client[i] = "none")
    /\ [][\A i \in 1..count :
            /\ client[i] = "closed" => client'[i] = "closed"
            /\ client[i] # "closed" /\ client'[i] = "closed" =>
                  /\ client[i] = "open"
                  /\ SEMAPHORE.owners[i] = 1
                  /\ SEMAPHORE.releases[i] = 0
                  /\ SEMAPHORE'.releases[i] = 1]_vars

\* One orchestration left the gated section by JOB_TIMEOUT and the other because its
\* submit response held no request identifier; both closed their clients.
C31_Witness ==
    /\ orch.on
    /\ err[1] = GenvoyToolError("JOB_TIMEOUT")
    /\ client[1] = "closed"
    /\ log[2] = << <<"submit", "start">>, <<"submit", "failed">> >>
    /\ orch.got[2]
    /\ err[2] = GenvoyToolError("INVALID_RESPONSE")
    /\ client[2] = "closed"

(***************************************************************************)
(* Claims about the test of the output path (SpecEscape)                   *)
(***************************************************************************)
\* Up to MaxCount orchestrations, each with an output path that is known to resolve
\* outside the working root or inside it, and with what they receive and send recorded.
InitEscape ==
    /\ FilesAtRest
    /\ WaitAtRest
    /\ model_ids = <<>>
    /\ count \in 1..MaxCount
    /\ \E outside \in [1..count -> BOOLEAN] : orch = [NewOrch(count) EXCEPT !.escapes = outside]
    /\ repo_dir \in BOOLEAN
    /\ bpc = "new"
    /\ pc = [i \in 1..count |-> "new"]
    /\ err = [i \in 1..count |-> NoError]
    /\ log = [i \in 1..count |-> <<>>]
    /\ client = [i \in 1..count |-> "none"]
    /\ SEMAPHORE = NewSemaphore(count)
    /\ oGated = 0
    /\ files = <<>>
    /\ failed = <<>>

SpecEscape == InitEscape /\ [][NextBatch]_vars

\* The three remote steps of an orchestration, each started and ended well.
RemoteStepsDone ==
    << <<"submit", "start">>, <<"submit", "ok">>, <<"wait", "start">>, <<"wait", "ok">>,
       <<"result", "start">>, <<"result", "ok">> >>

\* C39: an output path that escapes the working root is found out only after the
\* submit, the wait and the result fetch: the orchestration is admitted and makes its
\* remote calls like any other, it fails with PATH_TRAVERSAL_BLOCKED exactly when the
\* three remote steps succeeded and the result holds a media URL, by then it has
\* released its slot and closed its client, and it never sends a download request.
C39_PathCheckedAfterRemoteSteps ==
    \A i \in 1..count :
        orch.escapes[i] =>
            /\ pc[i] \notin {"download", "copy", "done"}
            /\ \A k \in 1..Len(orch.calls[i]) : orch.calls[i][k].op # "download"
            /\ pc[i] \in GatedSteps => err[i] = NoError
            /\ err[i] = GenvoyToolError("PATH_TRAVERSAL_BLOCKED") <=>
                  /\ pc[i] = "failed"
                  /\ log[i] = RemoteStepsDone
                  /\ HasUrl(_extract_first_media_url(orch.result[i]))
            /\ err[i] = GenvoyToolError("PATH_TRAVERSAL_BLOCKED") =>
                  /\ SEMAPHORE.owners[i] = 0
                  /\ SEMAPHORE.releases[i] = 1
                  /\ client[i] = "closed"
                  /\ \E k \in 1..Len(orch.calls[i]) : orch.calls[i][k].op = "result"

\* A request whose output path escapes the root made its three remote steps and failed
\* with PATH_TRAVERSAL_BLOCKED, its slot released.
C39_Witness ==
    /\ orch.on
    /\ orch.escapes # <<>>
    /\ orch.escapes[1]
    /\ err[1] = GenvoyToolError("PATH_TRAVERSAL_BLOCKED")
    /\ log[1] = RemoteStepsDone
    /\ SEMAPHORE.releases[1] = 1

(***************************************************************************)
(* Claims about a copy that fails (SpecFiles)                              *)
(***************************************************************************)
\* C40: when the copy to the repository fails (its destination resolves outside the
\* working root), the generation ends in failure with PATH_TRAVERSAL_BLOCKED and
\* gives no result, and the file the download wrote is still on disk, inside the
\* root and with the bytes it had: every file that was there when the copy began is
\* unchanged, and what the generation added is among them.
C40_FailedCopyLeavesDownload ==
    Ended("copy_to_repo") /\ fret.kind = "raise" =>
        /\ fret.code = "PATH_TRAVERSAL_BLOCKED"
        /\ gres = "failed"
        /\ Exists = DOMAIN snap
        /\ \A p \in DOMAIN snap : disk[p] = snap[p]
        /\ NewFiles # {}
        /\ \A p \in NewFiles : _is_within(p, Root)

\* The copy of a downloaded file was refused, beside a file of an earlier generation:
\* the generation failed and both files are on disk.
C40_Witness ==
    /\ Ended("copy_to_repo")
    /\ fret.kind = "raise"
    /\ gres = "failed"
    /\ Cardinality(NewFiles) = 1
    /\ Cardinality(Exists) = 2

(***************************************************************************)
(* Claims about the paths of a fan-out (SpecFns)                           *)
(***************************************************************************)
\* No two items of a sequence are the same.
PairwiseDistinct(seq) == \A i, j \in 1..Len(seq) : i # j => seq[i] # seq[j]

\* C36, as the specification states it: the items of every batch and of every
\* comparison are given pairwise distinct output paths and pairwise distinct copy
\* paths, so that no two of them resolve to the same file.
C36_FanOutPathsDistinct ==
    Done("generate_batch") \/ Done("generate_compare") =>
        /\ PairwiseDistinct(fn.ret.output_paths)
        /\ PairwiseDistinct(fn.ret.repo_paths)
        /\ PairwiseDistinct(fn.ret.resolved)

\* What holds in place of C36: the items of a batch have pairwise distinct paths, and
\* two items of a comparison have the same output path, the same copy path and, when
\* both resolve before either writes, the same file exactly when the slugs of their
\* model identifiers are the same.
C36_DistinctExceptForEqualSlugs ==
    /\ Done("generate_batch") =>
          /\ PairwiseDistinct(fn.ret.output_paths)
          /\ PairwiseDistinct(fn.ret.repo_paths)
          /\ PairwiseDistinct(fn.ret.resolved)
    /\ Done("generate_compare") =>
          \A i, j \in 1..Len(fn.arg.model_ids) :
              LET same == _slugify_model_id(fn.arg.model_ids[i]) = _slugify_model_id(fn.arg.model_ids[j])
              IN  /\ fn.ret.output_paths[i] = fn.ret.output_paths[j] <=> same
                  /\ fn.ret.repo_paths[i] = fn.ret.repo_paths[j] <=> same
                  /\ fn.ret.resolved[i] = fn.ret.resolved[j] <=> same

\* A comparison of a/c with A/c, in a directory that holds a-c.png already: both items
\* are given out/a-c and both resolve to out/a-c_1.png.
C36_Witness ==
    /\ Done("generate_compare")
    /\ fn.arg.model_ids = << <<"a", "/", "c">>, <<"A", "/", "c">> >>
    /\ fn.ret.output_paths[1] = fn.ret.output_paths[2]
    /\ fn.ret.resolved[1] = fn.ret.resolved[2]
    /\ fn.ret.resolved[1].name.idx = <<1>>

(***************************************************************************)
(* Claims about pagination (SpecFns)                                       *)
(***************************************************************************)
\* What the claim asks of a call with this cursor and page, an empty string counting
\* as not given: the error and no request when both are given and differ; else a
\* request that has no parameter page and has the effective cursor, if there is one,
\* as its parameter cursor.
PaginatedAsStated(arg, ret) ==
    IF NotEmpty(arg.cursor) /\ NotEmpty(arg.page) /\ arg.cursor # arg.page
    THEN ret.exc = "AMBIGUOUS_PAGINATION_CURSOR" /\ ~ret.sent
    ELSE LET effective == IF NotEmpty(arg.cursor) THEN arg.cursor ELSE arg.page
         IN  /\ ret.exc = "" /\ ret.sent
             /\ \A kv \in ret.params : kv[1] # "page"
             /\ { kv \in ret.params : kv[1] = "cursor" } =
                   IF NotEmpty(effective) THEN {<<"cursor", effective>>} ELSE {}

\* C33, as the specification states it: search_models and list_models fail with
\* AMBIGUOUS_PAGINATION_CURSOR, sending nothing, when cursor and page are both given
\* and differ, and in every other case send the effective cursor (the cursor, or the
\* page when there is no cursor) as the parameter cursor and never as page.
C33_EffectiveCursorSent ==
    Done("FalClient.search_models") \/ Done("FalClient.list_models") \/ Done("search_models") =>
        PaginatedAsStated(fn.arg, fn.ret)

\* What holds in place of C33: the two functions of FalClient do as stated; the tool
\* does so unless it is given an empty cursor and a page, whose request carries no
\* cursor at all.
C33_ClientAsStatedToolDropsPage ==
    /\ Done("FalClient.search_models") \/ Done("FalClient.list_models") =>
          PaginatedAsStated(fn.arg, fn.ret)
    /\ Done("search_models") =>
          IF fn.arg.cursor = "" /\ NotEmpty(fn.arg.page)
          THEN fn.ret.sent /\ \A kv \in fn.ret.params : kv[1] \notin {"cursor", "page"}
          ELSE PaginatedAsStated(fn.arg, fn.ret)

\* The tool was called with cursor "" and page "b" and sent its request without any
\* cursor.
C33_Witness ==
    /\ Done("search_models")
    /\ fn.arg.cursor = ""
    /\ fn.arg.page = "b"
    /\ fn.ret = Sent({<<"q", "flux">>})

(***************************************************************************)
(* Claims about the validation at the boundary (SpecFns)                   *)
(***************************************************************************)
\* The input of the call breaks one of the boundary rules of its tool: a model
\* identifier that is not of the form name/name(/name)*, a prompt longer than
\* MAX_PROMPT_LENGTH, a count outside 1..MAX_BATCH_COUNT, a list of fewer than 2 or
\* more than MAX_COMPARE_MODELS models, an empty request identifier.
BreaksRule(tool, arg, wellFormed(_)) ==
    \/ tool # "generate_compare" /\ ~wellFormed(arg.model_id)
    \/ tool = "generate_compare" /\ \E k \in 1..Len(arg.model_ids) : ~wellFormed(arg.model_ids[k])
    \/ tool = "generate_compare" /\ Len(arg.model_ids) \notin 2..MAX_COMPARE_MODELS
    \/ tool \in {"generate", "generate_batch", "generate_compare"} /\ arg.prompt > MAX_PROMPT_LENGTH
    \/ tool = "generate_batch" /\ arg.count \notin 1..MAX_BATCH_COUNT
    \/ tool \in {"get_job_status", "cancel_job"} /\ arg.request_id = ""

ValidationCodes == {"INVALID_MODEL_ID", "PROMPT_TOO_LONG", "VALIDATION_ERROR"}

\* The call was refused with a validation code before it created anything.
Refused(ret) == ret.exc \in ValidationCodes /\ ~ret.started /\ ~ret.mkdir

\* C32, as the specification states it: every call of generate, generate_batch,
\* generate_compare, get_schema, get_job_status or cancel_job whose input breaks a
\* boundary rule fails with INVALID_MODEL_ID, PROMPT_TOO_LONG or VALIDATION_ERROR
\* before a client, a gate slot, a remote call or a directory is made.
C32_InvalidInputRefusedFirst ==
    Done("Tool") /\ BreaksRule(fn.arg.tool, fn.arg.input, IsModelId) => Refused(fn.ret)

\* What holds in place of C32: a call is refused, before anything is made, exactly
\* when its input breaks a rule as the code tests it, where a model identifier
\* passes if MODEL_ID_PATTERN.match accepts it; the identifiers that pass and are not
\* of the form are those with a newline after the last name.
C32_RefusedAsPatternMatches ==
    Done("Tool") =>
        LET tool == fn.arg.tool
            input == fn.arg.input
            EndsWithNewline(s) == s # <<>> /\ s[Len(s)] = "\n"
        IN  /\ BreaksRule(tool, input, MODEL_ID_PATTERN_match) <=> Refused(fn.ret)
            /\ ~BreaksRule(tool, input, MODEL_ID_PATTERN_match) => fn.ret.exc = "" /\ fn.ret.started
            /\ BreaksRule(tool, input, IsModelId) /\ ~Refused(fn.ret) =>
                  \/ EndsWithNewline(input.model_id)
                  \/ \E k \in 1..Len(input.model_ids) : EndsWithNewline(input.model_ids[k])

\* get_schema was called for the identifier "a/b" with a newline after it and went on
\* to create its client.
C32_Witness ==
    /\ Done("Tool")
    /\ fn.arg.tool = "get_schema"
    /\ fn.arg.input.model_id = <<"a", "/", "b", "\n">>
    /\ fn.ret.exc = ""
    /\ fn.ret.started

====
